---- MODULE Spec2Model ----
(***************************************************************************)
(* A model of the YUV node core: the DAG attacher (GraphBuilder), the      *)
(* checker workers, the isolated validator, the block indexer, the         *)
(* announcement codec and the node's tasks and shutdown.  Every operation  *)
(* is translated from the Rust sources; the comments give the function     *)
(* each definition follows.                                                *)
(***************************************************************************)
EXTENDS Integers, Sequences, FiniteSets, TLC

VARIABLES
    \* ---- the state store (shared by the checker workers and the attacher)
    tx_storage,            \* yuv_tx: the txids of the attached transactions
    pages,                 \* page[i]: page number -> sequence of txids
    pages_number,          \* the stored page count, <<>> while never written
    frozen,                \* frozen: outpoint -> sequence of freeze txids
    chroma_info,           \* chroma -> <<>> or <<[announcement, total_supply]>>
    \* ---- GraphBuilder fields
    inverse_deps,          \* parent txid -> set of children waiting for it
    deps,                  \* child txid -> set of parents not yet attached
    stored_txs,            \* pending txid -> created_at
    tx_per_page,
    tx_outdated_duration,
    \* ---- GraphBuilder::attach_txs locals and position
    pc,                    \* "idle" | "first_pass" | "queue" | "panicked"
    batch,                 \* checked_txs handled so far in the current call
    queued_txs,            \* the round's queue, not yet visited
    local_queue,           \* the next round's queue
    attached_txs,          \* ids attached in this call, in order
    \* ---- environment
    now,                   \* SystemTime::now()
    known,                 \* the transactions the traffic is drawn from
    \* ---- observations
    attach_log,            \* every txid handed to set_tx_attached, in order
    page_writes,           \* every put_page call, in order
    last_op,               \* the operation that ran last
    calls,                 \* attach_txs calls so far
    prev,                  \* <<>> or the batch and state the current call started from
    doomed,                \* what the last cleanup had to remove
    verdict,               \* outcome of the last is_output_frozen
    checked_outpoint,      \* the outpoint of the last is_output_frozen
    \* ---- checker workers handling announcements
    worker,                \* worker -> position and announcement in hand
    \* ---- the isolated validator
    yuv_tx,                \* the transaction under check
    overflow_checks,       \* build profile: arithmetic overflow panics
    check_result,          \* "none" or the validator's result
    \* ---- checker worker: check_txs
    invalid,               \* the invalid namespace: txids
    events,                \* the messages the last check_txs sent, in order
    new_txs,               \* <<>> or the NewTxs event of the last check_txs
    checked_channel,       \* CheckedTxs batches not yet received by the GraphBuilder
    incoming,              \* the rest of the CheckedTxs batch being attached
    checks,                \* check_txs calls so far
    \* ---- block indexer
    chain,                 \* the Bitcoin node's active chain: the block at each height
    last_indexed,          \* last_indexed_hash: <<>> or a block
    index_log,             \* every index_block call: the block and each sub-indexer's result
    indexer_pc,            \* "off" | "run" | "failed"
    polls,                 \* init and run ticks so far
    tick_info,             \* <<>> or what the last tick started from and how it ended
    \* ---- codecs
    codec_value,           \* the value to encode, or the bytes to parse
    codec_bytes,           \* <<>> or the encoding
    codec_decoded,         \* <<>> or the result of decoding
    \* ---- node tasks and shutdown
    cancelation,           \* the shared CancellationToken is cancelled
    task_pc,               \* each spawned task: "select" | "handling" | "stuck" | "returned"
    tracker_closed,        \* task_tracker.close() was called
    shutdown_timeout,      \* config.shutdown_timeout: None or Some(seconds)
    shutdown_pc,           \* Node::shutdown: "off" | "waiting" | "returned"
    elapsed,               \* seconds since shutdown began to wait
    \* ---- the confirmation indexer
    new_tx_rx,             \* the ConfirmBatchTx events not received yet
    queue,                 \* the confirmations queue: txid -> created_at
    max_confirmation_time, \* longest wait for a confirmation
    system_time,           \* SystemTime::now()
    block_txs,             \* the txids of each block of the Bitcoin node's chain
    indexed_blocks,        \* blocks the indexer has indexed
    confirmed_txs,         \* the NewTxs messages sent to the checker
    confirm_log,           \* what was submitted, received and expired so far
    \* ---- the frozen entries between a get_frozen_tx and a put_frozen_tx
    builder_freeze,        \* the graph builder inside set_tx_attached: <<>> or its locals
    worker_freeze,         \* each worker inside is_output_frozen: <<>> or its freeze_entry
    appended,              \* the freeze txids update_freezes has put
    \* ---- Node::run up to spawn_controller
    startup_pc,            \* "init" while spawn_indexer awaits init, then "spawned"
    blocks_left,           \* blocks the block loader has still to deliver to init
    freeze_send,           \* the FreezesIndexer inside event_bus.send: <<>> or its txs
    controller_channel,    \* the ControllerMessage channel of the event bus
    \* ---- the graph builder's messages to the controller
    reported               \* the txids sent in AttachedTxs messages

vars == << tx_storage, pages, pages_number, frozen, chroma_info, inverse_deps,
           deps, stored_txs, tx_per_page, tx_outdated_duration, pc, batch,
           queued_txs, local_queue, attached_txs, now, known, attach_log,
           page_writes, last_op, calls, prev, doomed, verdict, checked_outpoint,
           worker, yuv_tx, overflow_checks, check_result, invalid, events,
           new_txs, checked_channel, incoming, checks, chain,
           last_indexed, index_log, indexer_pc, polls, tick_info,
           codec_value, codec_bytes, codec_decoded, cancelation, task_pc,
           tracker_closed, shutdown_timeout, shutdown_pc, elapsed,
           new_tx_rx, queue, max_confirmation_time, system_time, block_txs,
           indexed_blocks, confirmed_txs, confirm_log, builder_freeze,
           worker_freeze, appended, startup_pc, blocks_left, freeze_send,
           controller_channel, reported >>

store_vars == << tx_storage, pages, pages_number, frozen >>
builder_vars == << inverse_deps, deps, stored_txs >>
config_vars == << tx_per_page, tx_outdated_duration, known >>
call_vars == << pc, batch, queued_txs, local_queue, attached_txs >>
worker_vars == << worker >>
validator_vars == << yuv_tx, overflow_checks, check_result >>
checker_vars == << invalid, events, new_txs, checked_channel, incoming,
                   checks >>
indexer_vars == << chain, last_indexed, index_log, indexer_pc, polls,
                   tick_info >>
codec_vars == << codec_value, codec_bytes, codec_decoded >>
node_vars == << cancelation, task_pc, tracker_closed, shutdown_timeout,
               shutdown_pc, elapsed >>
confirm_vars == << new_tx_rx, queue, max_confirmation_time, system_time,
                  block_txs, indexed_blocks, confirmed_txs, confirm_log >>
race_vars == << builder_freeze, worker_freeze, appended >>
startup_vars == << startup_pc, blocks_left, freeze_send, controller_channel >>
report_vars == << reported >>
ext_vars == << confirm_vars, race_vars, startup_vars, report_vars >>

-----------------------------------------------------------------------------
(* Bounds of the model                                                     *)

MaxBatch == 2          \* longest batch of one attach_txs call (general traffic)
MaxBatchDoc == 6       \* longest batch over the documentation example
MaxCalls == 2          \* attach_txs calls per behaviour (general traffic)
MaxCallsDoc == 1       \* attach_txs calls per behaviour over the documentation example
MaxTime == 1           \* clock ticks per behaviour
NumWorkers == 2        \* checker workers of the pool
MaxAnnouncements == 3  \* announcements handled per behaviour
MaxSupply == 2         \* largest max_supply and largest issue amount
LumaBits == 2          \* width of a luma amount (u128 in the code)
MaxInputProofs == 2    \* input proofs of a transaction under check
MaxOutputProofs == 3   \* output proofs of a Transfer under check
MaxIssueProofs == 2    \* output proofs of an Issue under check
MaxChecks == 3         \* check_txs calls per behaviour
MaxCheckBatch == 2     \* longest NewTxs batch
MaxChannel == 1        \* CheckedTxs messages the GraphBuilder's channel holds
MaxHeight == 2         \* height of the highest block the Bitcoin node finds
MaxPolls == 3          \* init calls and run ticks of the indexer per behaviour
NumIndexers == 2       \* sub-indexers registered with add_indexer
GenesisHeights == {0, 1}  \* IndexingParams::yuv_genesis_block_hash: its height
MaxVout == 1           \* largest small output index of a proof or a freeze entry
MaxFreezes == 2        \* longest freeze list of a FreezeToggle
MaxData == 2           \* longest announcement data
MaxParseLen == 6       \* longest byte string handed to from_bytes
GroupOrder == 3        \* order of the group of keys and commitments
MaxBulletproofs == 2   \* proofs on each side of a transfer with Bulletproof proofs
MaxTimeout == 2        \* seconds of a configured shutdown timeout
MaxStepBack == 1       \* largest index_step_back
MaxPerPage == 2        \* largest tx_per_page of the paging scenario
MaxIssueOutputs == 2   \* most outputs of the Bitcoin transaction of an Issue
MaxConfirmEvents == 2  \* ConfirmBatchTx events per behaviour
MaxConfirmBatch == 2   \* most transactions of a ConfirmBatchTx event
MaxBlocks == 2         \* blocks the Bitcoin network mines
MaxInitBlocks == 3     \* blocks between the starting height and the tip at start
ChannelSize == 2       \* capacity the ControllerMessage channel is registered with
MaxSystemTime == 1     \* the system clock's last reading
MaxConfirmationTime == 0 \* largest max_confirmation_time

-----------------------------------------------------------------------------
(* Constants of the program                                                *)

ISSUE_CONSENSUS_FLAG == 0
TRANSFER_CONSENSUS_FLAG == 1
FREEZE_CONSENSUS_FLAG == 2
INVENTORY_YTX_FLAG == 0
TX_ID_SIZE == 32
FREEZE_ENTRY_SIZE == TX_ID_SIZE + 4
FREEZE_INSTRUCTION_NUMBER == 3
ANNOUNCEMENT_PREFIX == << 121, 117, 118 >>
ANNOUNCEMENT_KIND_LENGTH == 2
ANNOUNCEMENT_MINIMAL_LENGTH == Len(ANNOUNCEMENT_PREFIX) + ANNOUNCEMENT_KIND_LENGTH
ANNOUNCEMENT_INSTRUCTION_NUMBER == 3
DEFAULT_SHUTDOWN_TIMEOUT_SECS == 30
DEFAULT_INDEX_STEP_BACK == 1
MIN_CONFIRMATIONS == 1

-----------------------------------------------------------------------------
(* Option and map helpers (Option<T> is <<>> or <<v>>; a HashMap is a      *)
(* function whose DOMAIN is its key set)                                   *)

None == << >>
Some(v) == << v >>
UnwrapOr(opt, default) == IF opt = None THEN default ELSE opt[1]

EmptyMap == [k \in {} |-> {}]
Has(m, k) == k \in DOMAIN m
Get(m, k, default) == IF k \in DOMAIN m THEN m[k] ELSE default
Put(m, k, v) == [x \in DOMAIN m \cup {k} |-> IF x = k THEN v ELSE m[x]]
Remove(m, k) == [x \in DOMAIN m \ {k} |-> m[x]]

Range(s) == {s[i] : i \in 1..Len(s)}
Min(a, b) == IF a < b THEN a ELSE b

\* the keys of a BTreeMap in iteration order
RECURSIVE SortedKeys(_)
SortedKeys(keys) ==
    IF keys = {} THEN << >>
    ELSE LET least == CHOOSE k \in keys : \A other \in keys : k <= other
         IN  << least >> \o SortedKeys(keys \ {least})

-----------------------------------------------------------------------------
(* The transactions of the traffic.                                        *)
(* DocTxs is the example of tx-attach's tests (test_example_from_doc,      *)
(* test_cleanup).  NodeTxs is a second graph with freeze toggles: fz1 is   *)
(* signed by the owner of chroma c1, fz2 by somebody else; both target     *)
(* outpoint o1, whose pixel has chroma c1; tr2 spends outputs of is2 and   *)
(* of fz2, tr1 spends outputs of is1, of tr2 and of fz1.                   *)

DocTxs == {"tx1", "tx2", "tx3", "tx4", "tx5", "tx6", "tx7"}
NodeTxs == {"is1", "is2", "fz1", "fz2", "tr1", "tr2"}
\* the traffic of the checker: issue ci, whose output o1 transfer ct spends;
\* cb breaks the conservation rules and co's output sum overflows; cf and cg
\* are freeze toggles of o1 signed by the owner of chroma c1, cz is a freeze
\* toggle of o1 signed by the owner of chroma c2
ParentCheckTxs == {"cf", "ci", "ct"}
FreezeCheckTxs == {"cg", "ct"}
InvalidCheckTxs == {"cb", "ci", "co", "ct"}
ForeignCheckTxs == {"ci", "ct", "cz"}
CheckerTxs ==
    ParentCheckTxs \cup FreezeCheckTxs \cup InvalidCheckTxs \cup ForeignCheckTxs
TxIds == DocTxs \cup NodeTxs \cup CheckerTxs
Outpoints == {"o1"}
Chromas == {"c1", "c2"}

\* YuvTxType of a transaction
TxType(t) ==
    CASE t \in {"tx1", "tx2", "tx6", "tx7", "is1", "is2", "ci"} -> "Issue"
      [] t \in {"fz1", "fz2", "cf", "cg", "cz"} -> "FreezeToggle"
      [] OTHER -> "Transfer"

\* previous_output.txid of the inputs that have an input proof, by vin
InputParents(t) ==
    CASE t = "tx3" -> << "tx1", "tx2" >>
      [] t = "tx4" -> << "tx3", "tx7", "tx6" >>
      [] t = "tx5" -> << "tx4" >>
      [] t = "tr1" -> << "is1", "tr2", "fz1" >>
      [] t = "tr2" -> << "is2", "fz2" >>
      [] t \in {"cb", "co", "ct"} -> << "ci" >>
      [] OTHER -> << >>

\* the freezes of a FreezeToggle
Freezes(t) == IF TxType(t) = "FreezeToggle" THEN << "o1" >> ELSE << >>

\* the chroma of the pixel an outpoint carries
PixelChroma(o) == "c1"

\* the x-only public key of a chroma, and PixelKey(Pixel::empty(), chroma), x-only
XOnlyKey(chroma) == [tweak |-> "none", inner |-> chroma]
EmptyPixelKey(chroma) == [tweak |-> "empty_pixel", inner |-> chroma]

\* x-only witness public keys of a transaction's P2WPKH inputs
WitnessKeys(t) ==
    CASE t \in {"fz1", "cf", "cg", "ci"} -> {XOnlyKey("c1")}
      [] t \in {"fz2", "cz"} -> {XOnlyKey("c2")}
      [] OTHER -> {}

\* find_issuer_in_txinputs that takes any P2WPKH input for the issuer's
find_issuer_any_p2wpkh(keys, chroma) == keys # {}

\* find_issuer_in_txinputs(..).is_some(), over the x-only keys of the P2WPKH inputs
find_issuer_in_txinputs(keys, chroma) ==
    \E key \in keys : key \in {XOnlyKey(chroma), EmptyPixelKey(chroma)}

-----------------------------------------------------------------------------
(* GraphBuilder (crates/tx-attach/src/lib.rs)                              *)

BatchCap == IF known = DocTxs THEN MaxBatchDoc ELSE MaxBatch
CallCap == IF known = DocTxs THEN MaxCallsDoc ELSE MaxCalls

\* update_freezes: push the freeze txid to the entry of every toggled outpoint
RECURSIVE update_freezes(_, _, _)
update_freezes(fr, txid, freezes) ==
    IF freezes = << >> THEN fr
    ELSE LET outpoint == Head(freezes)
             value == Get(fr, outpoint, << >>)
         IN update_freezes(Put(fr, outpoint, Append(value, txid)), txid, Tail(freezes))

\* set_tx_attached that adds nothing to the inventory
set_tx_attached_no_inventory(attached, t) == attached

\* set_tx_attached, the attached_txs it leaves: a freeze toggle is stored but
\* not added to the inventory
set_tx_attached(attached, t) ==
    IF TxType(t) = "FreezeToggle" THEN attached ELSE Append(attached, t)

\* set_tx_attached, the frozen entries it leaves
set_tx_attached_frozen(fr, t) ==
    IF TxType(t) = "FreezeToggle" THEN update_freezes(fr, t, Freezes(t)) ELSE fr

\* remove_attached_parents: the deps map with the attached parents of txid removed
remove_attached_parents(d, storage, txid) ==
    IF ~Has(d, txid) THEN d ELSE Put(d, txid, d[txid] \ storage)

\* split_at that leaves everything in the current page
split_at_all_current(txids, left_space) == << txids, << >> >>

\* split_at without panic
split_at(txids, left_space) ==
    LET n == Min(left_space, Len(txids))
    IN << SubSeq(txids, 1, n), SubSeq(txids, n + 1, Len(txids)) >>

\* put_txs_ids_to_page, on a record [pages, pages_number, page_writes]
put_txs_ids_to_page(st, txids) ==
    LET last_page_num == UnwrapOr(st.pages_number, 0)
        last_page == Get(st.pages, last_page_num, << >>)
        left_space == IF tx_per_page > Len(last_page)
                      THEN tx_per_page - Len(last_page) ELSE 0
        parts == split_at(txids, left_space)
        in_current_page == parts[1]
        in_next_page == parts[2]
        st1 == IF in_current_page # << >>
               THEN [st EXCEPT
                       !.pages = Put(st.pages, last_page_num, last_page \o in_current_page),
                       !.page_writes = Append(st.page_writes,
                           [num |-> last_page_num, page |-> last_page \o in_current_page])]
               ELSE st
    IN IF in_next_page # << >>
       THEN [st1 EXCEPT
               !.pages = Put(st1.pages, last_page_num + 1, in_next_page),
               !.page_writes = Append(st1.page_writes,
                   [num |-> last_page_num + 1, page |-> in_next_page]),
               !.pages_number = Some(last_page_num + 1)]
       ELSE st1

\* handle_fully_attached_txs: the chunks of tx_per_page ids, one after the other
RECURSIVE handle_fully_attached_txs(_, _)
handle_fully_attached_txs(st, txids) ==
    IF txids = << >> THEN st
    ELSE LET n == Min(tx_per_page, Len(txids))
         IN handle_fully_attached_txs(
                put_txs_ids_to_page(st, SubSeq(txids, 1, n)),
                SubSeq(txids, n + 1, Len(txids)))

\* the attached storage, the pages, the frozen entries and the in-memory maps
\* (of stored_txs the keys: created_at is the clock's reading)
Snapshot ==
    [tx_storage |-> tx_storage, pages |-> pages, pages_number |-> pages_number,
     frozen |-> frozen, deps |-> deps, inverse_deps |-> inverse_deps,
     stored_txs |-> DOMAIN stored_txs]

\* attach_txs is entered with a batch of CheckedTxs
AttachTxsBegin ==
    /\ pc = "idle"
    /\ calls < CallCap
    /\ pc' = "first_pass"
    /\ calls' = calls + 1
    /\ batch' = << >>
    /\ queued_txs' = {}
    /\ local_queue' = {}
    /\ attached_txs' = << >>
    /\ prev' = Some([batch |-> batch, state |-> Snapshot,
                      consecutive |-> last_op = "attach_txs"])
    /\ last_op' = "attach_txs_step"
    /\ UNCHANGED << store_vars, chroma_info, builder_vars, config_vars, now, attach_log,
                    page_writes, doomed, verdict, checked_outpoint,
                    worker_vars, validator_vars,
                    checker_vars, indexer_vars, codec_vars, node_vars, ext_vars >>

\* attach_txs, first loop, YuvTxType::Issue
AttachIssue(t) ==
    /\ tx_storage' = tx_storage \cup {t}
    /\ attached_txs' = set_tx_attached(attached_txs, t)
    /\ attach_log' = Append(attach_log, t)
    /\ queued_txs' = queued_txs \cup Get(inverse_deps, t, {})
    /\ inverse_deps' = Remove(inverse_deps, t)
    /\ UNCHANGED << frozen, deps, stored_txs >>

\* attach_txs, first loop, YuvTxType::FreezeToggle
AttachFreezeToggle(t) ==
    /\ tx_storage' = tx_storage \cup {t}
    /\ frozen' = set_tx_attached_frozen(frozen, t)
    /\ attached_txs' = set_tx_attached(attached_txs, t)
    /\ attach_log' = Append(attach_log, t)
    /\ UNCHANGED << queued_txs, inverse_deps, deps, stored_txs >>

\* handle_transfer
handle_transfer(child_id) ==
    LET missing == {p \in Range(InputParents(child_id)) : p \notin tx_storage}
        inv1 == [p \in DOMAIN inverse_deps \cup missing |->
                    Get(inverse_deps, p, {}) \cup
                        (IF p \in missing THEN {child_id} ELSE {})]
        child_deps == Get(deps, child_id, {}) \cup missing
        all_parents_attached == child_deps = {}
    IN IF all_parents_attached
       THEN /\ tx_storage' = tx_storage \cup {child_id}
            /\ attached_txs' = set_tx_attached(attached_txs, child_id)
            /\ attach_log' = Append(attach_log, child_id)
            /\ deps' = Remove(deps, child_id)
            /\ queued_txs' = queued_txs \cup Get(inv1, child_id, {})
            /\ inverse_deps' = Remove(inv1, child_id)
            /\ UNCHANGED << frozen, stored_txs >>
       ELSE /\ inverse_deps' = inv1
            /\ deps' = Put(deps, child_id, child_deps)
            /\ stored_txs' = Put(stored_txs, child_id, now)
            /\ UNCHANGED << tx_storage, frozen, attached_txs, attach_log, queued_txs >>

\* attach_txs, first loop: the next transaction of the batch
FirstPass(t) ==
    /\ pc = "first_pass"
    /\ t \in known
    /\ t \notin Range(batch)
    /\ Len(batch) < BatchCap
    /\ batch' = Append(batch, t)
    /\ CASE TxType(t) = "Issue" -> AttachIssue(t)
         [] TxType(t) = "FreezeToggle" -> AttachFreezeToggle(t)
         [] OTHER -> handle_transfer(t)
    /\ last_op' = "attach_txs_step"
    /\ UNCHANGED << pages, pages_number, chroma_info, config_vars, pc, local_queue, now,
                    page_writes, calls, prev, doomed, verdict,
                    checked_outpoint, worker_vars, validator_vars,
                    checker_vars, indexer_vars, codec_vars, node_vars, ext_vars >>

\* attach_txs: the first loop is over, the queue loop starts
EndFirstPass ==
    /\ pc = "first_pass"
    /\ batch # << >>
    /\ pc' = "queue"
    /\ last_op' = "attach_txs_step"
    /\ UNCHANGED << store_vars, chroma_info, builder_vars, config_vars, batch, queued_txs,
                    local_queue, attached_txs, now, attach_log, page_writes,
                    calls, prev, doomed, verdict, checked_outpoint, worker_vars,
                    validator_vars,
                    checker_vars, indexer_vars, codec_vars, node_vars, ext_vars >>

\* attach_txs, queue loop: one txid of the round's queue (a HashSet: any order)
QueueStep(txid) ==
    /\ pc = "queue"
    /\ txid \in queued_txs
    /\ queued_txs' = queued_txs \ {txid}
    /\ LET deps1 == remove_attached_parents(deps, tx_storage, txid)
           is_empty == Get(deps1, txid, {}) = {}
       IN IF ~is_empty
          THEN /\ deps' = deps1
               /\ UNCHANGED << tx_storage, frozen, inverse_deps, stored_txs, pc,
                               local_queue, attached_txs, attach_log >>
          ELSE IF ~Has(stored_txs, txid)
          THEN \* debug_assert!(false): a debug build panics, a release build continues
               /\ deps' = deps1
               /\ \E debug_assertions \in BOOLEAN :
                     pc' = IF debug_assertions THEN "panicked" ELSE "queue"
               /\ UNCHANGED << tx_storage, frozen, inverse_deps, stored_txs,
                               local_queue, attached_txs, attach_log >>
          ELSE /\ stored_txs' = Remove(stored_txs, txid)
               /\ deps' = Remove(deps1, txid)
               /\ tx_storage' = tx_storage \cup {txid}
               /\ frozen' = set_tx_attached_frozen(frozen, txid)
               /\ attached_txs' = set_tx_attached(attached_txs, txid)
               /\ attach_log' = Append(attach_log, txid)
               /\ local_queue' = local_queue \cup Get(inverse_deps, txid, {})
               /\ inverse_deps' = Remove(inverse_deps, txid)
               /\ UNCHANGED pc
    /\ last_op' = "attach_txs_step"
    /\ UNCHANGED << pages, pages_number, chroma_info, config_vars, batch, now,
                    page_writes, calls, prev, doomed, verdict,
                    checked_outpoint, worker_vars, validator_vars,
                    checker_vars, indexer_vars, codec_vars, node_vars, ext_vars >>

\* the end of a round that leaves local_queue as it is
QueueRound_keeps_local_queue ==
    /\ pc = "queue"
    /\ queued_txs = {}
    /\ local_queue # {}
    /\ queued_txs' = local_queue
    /\ last_op' = "attach_txs_step"
    /\ UNCHANGED << store_vars, chroma_info, builder_vars, config_vars, pc, batch,
                    local_queue, attached_txs, now, attach_log, page_writes, calls,
                    prev, doomed, verdict, checked_outpoint, worker_vars,
                    validator_vars, checker_vars, indexer_vars, codec_vars,
                    node_vars, ext_vars >>

\* attach_txs, queue loop: queued_txs = local_queue
QueueRound ==
    /\ pc = "queue"
    /\ queued_txs = {}
    /\ local_queue # {}
    /\ queued_txs' = local_queue
    /\ local_queue' = {}
    /\ last_op' = "attach_txs_step"
    /\ UNCHANGED << store_vars, chroma_info, builder_vars, config_vars, pc, batch,
                    attached_txs, now, attach_log, page_writes, calls, prev,
                    doomed, verdict, checked_outpoint, worker_vars, validator_vars,
                    checker_vars, indexer_vars, codec_vars, node_vars, ext_vars >>

\* attach_txs: the queue is empty, handle_fully_attached_txs and return
AttachTxsEnd ==
    /\ pc = "queue"
    /\ queued_txs = {}
    /\ local_queue = {}
    /\ LET st == handle_fully_attached_txs(
                    [pages |-> pages, pages_number |-> pages_number,
                     page_writes |-> page_writes], attached_txs)
       IN /\ pages' = st.pages
          /\ pages_number' = st.pages_number
          /\ page_writes' = st.page_writes
    /\ reported' = reported \cup Range(attached_txs)
    /\ pc' = "idle"
    /\ last_op' = "attach_txs"
    /\ UNCHANGED << tx_storage, frozen, chroma_info, builder_vars, config_vars, batch,
                    queued_txs, local_queue, attached_txs, now, attach_log, calls, prev,
                    doomed, verdict, checked_outpoint, worker_vars, validator_vars,
                    checker_vars, indexer_vars, codec_vars, node_vars, confirm_vars,
                    race_vars, startup_vars >>

\* attach_txs returns the error of a storage call with `?`: queued_txs and
\* attached_txs are dropped, GraphBuilder::run logs the error and goes on
AttachTxsStorageError ==
    /\ pc \in {"first_pass", "queue"}
    /\ pc' = "idle"
    /\ last_op' = "attach_txs_err"
    /\ UNCHANGED << store_vars, chroma_info, builder_vars, config_vars, batch,
                    queued_txs, local_queue, attached_txs, now, attach_log,
                    page_writes, calls, prev, doomed, verdict, checked_outpoint,
                    worker_vars, validator_vars, checker_vars, indexer_vars,
                    codec_vars, node_vars, ext_vars >>

\* a set as a sequence (the order a HashSet or HashMap iterates in; the
\* results below do not depend on it)
RECURSIVE SetToSeq(_)
SetToSeq(S) ==
    IF S = {} THEN << >>
    ELSE LET x == CHOOSE y \in S : TRUE IN << x >> \o SetToSeq(S \ {x})

\* remove_tx_from_deps, on a record [stored_txs, deps, inverse_deps]
remove_tx_from_deps(m, txid) ==
    IF ~Has(m.deps, txid) THEN m
    ELSE LET ds == m.deps[txid]
             inv == m.inverse_deps
             emptied == {p \in DOMAIN inv : p \in ds /\ inv[p] \ {txid} = {}}
         IN [m EXCEPT
               !.deps = Remove(m.deps, txid),
               !.inverse_deps = [p \in DOMAIN inv \ emptied |->
                                    IF p \in ds THEN inv[p] \ {txid} ELSE inv[p]]]

\* remove_outdated_tx: the loop over txs_to_remove
RECURSIVE remove_outdated_tx(_, _, _)
remove_outdated_tx(m, txs_to_remove, removed_txs_set) ==
    IF txs_to_remove = << >> THEN m
    ELSE LET txid == Head(txs_to_remove)
             m1 == [m EXCEPT !.stored_txs = Remove(m.stored_txs, txid)]
             m2 == remove_tx_from_deps(m1, txid)
         IN IF ~Has(m2.inverse_deps, txid)
            THEN remove_outdated_tx(m2, Tail(txs_to_remove), removed_txs_set)
            ELSE LET fresh == m2.inverse_deps[txid] \ removed_txs_set
                 IN remove_outdated_tx(
                        [m2 EXCEPT !.inverse_deps = Remove(m2.inverse_deps, txid)],
                        Tail(txs_to_remove) \o SetToSeq(fresh),
                        removed_txs_set \cup fresh)

\* handle_cleanup: the loop over outdated_txs
RECURSIVE handle_cleanup(_, _)
handle_cleanup(m, outdated_txs) ==
    IF outdated_txs = << >> THEN m
    ELSE LET txid == Head(outdated_txs)
         IN handle_cleanup(remove_outdated_tx(m, << txid >>, {txid}), Tail(outdated_txs))

\* the stored transactions older than tx_outdated_duration
Outdated == {t \in DOMAIN stored_txs : now - stored_txs[t] > tx_outdated_duration}

\* a set of transactions with every descendant reachable through inverse_deps
RECURSIVE Descendants(_)
Descendants(S) ==
    LET next == S \cup UNION {Get(inverse_deps, x, {}) : x \in S}
    IN IF next = S THEN S ELSE Descendants(next)

\* the cleanup timer fires (GraphBuilder::run, timer.tick())
HandleCleanup ==
    /\ pc = "idle"
    /\ LET m == handle_cleanup(
                    [stored_txs |-> stored_txs, deps |-> deps,
                     inverse_deps |-> inverse_deps], SetToSeq(Outdated))
       IN /\ stored_txs' = m.stored_txs
          /\ deps' = m.deps
          /\ inverse_deps' = m.inverse_deps
    /\ doomed' = Descendants(Outdated)
    /\ last_op' = "cleanup"
    /\ prev' = None
    /\ UNCHANGED << store_vars, chroma_info, config_vars, call_vars, now, attach_log,
                    page_writes, calls, verdict, checked_outpoint, worker_vars,
                    validator_vars,
                    checker_vars, indexer_vars, codec_vars, node_vars, ext_vars >>

\* time passes
Tick ==
    /\ now < MaxTime
    /\ now' = now + 1
    /\ UNCHANGED << store_vars, chroma_info, builder_vars, config_vars, call_vars,
                    attach_log, page_writes, last_op, calls, prev, doomed, verdict,
                    checked_outpoint, worker_vars, validator_vars,
                    checker_vars, indexer_vars, codec_vars, node_vars, ext_vars >>

-----------------------------------------------------------------------------
(* Checker worker: freezes (crates/tx-check/src/worker.rs)                 *)

\* is_output_frozen: the loop over freeze_entry.tx_ids, on a record
\* [tx_storage, checked_freezes, err]
RECURSIVE check_freezes(_, _, _)
check_freezes(st, tx_ids, chroma) ==
    IF tx_ids = << >> THEN st
    ELSE LET freeze_txid == Head(tx_ids)
         IN IF freeze_txid \notin st.tx_storage
            THEN [st EXCEPT !.err = TRUE]
            ELSE IF ~find_issuer_in_txinputs(WitnessKeys(freeze_txid), chroma)
            THEN check_freezes(
                     [st EXCEPT !.tx_storage = st.tx_storage \ {freeze_txid}],
                     Tail(tx_ids), chroma)
            ELSE check_freezes(
                     [st EXCEPT !.checked_freezes = Append(st.checked_freezes, freeze_txid)],
                     Tail(tx_ids), chroma)

\* chroma_info says the chroma does not allow freezes
NotFreezable(chroma) ==
    /\ chroma_info[chroma] # None
    /\ chroma_info[chroma][1].announcement # None
    /\ ~chroma_info[chroma][1].announcement[1].is_freezable

\* is_output_frozen on the stores [tx_storage, frozen]: the stores it leaves
\* and its verdict
is_output_frozen(st, outpoint) ==
    LET chroma == PixelChroma(outpoint)
    IN IF NotFreezable(chroma) \/ ~Has(st.frozen, outpoint)
       THEN [tx_storage |-> st.tx_storage, frozen |-> st.frozen, verdict |-> "not_frozen"]
       ELSE LET checked == check_freezes(
                               [tx_storage |-> st.tx_storage, checked_freezes |-> << >>,
                                err |-> FALSE], st.frozen[outpoint], chroma)
            IN IF checked.err
               THEN [tx_storage |-> checked.tx_storage, frozen |-> st.frozen,
                     verdict |-> "error"]
               ELSE [tx_storage |-> checked.tx_storage,
                     frozen |-> Put(st.frozen, outpoint, checked.checked_freezes),
                     verdict |-> IF Len(checked.checked_freezes) % 2 = 1
                                 THEN "frozen" ELSE "not_frozen"]

\* is_output_frozen, called by check_transfer for an input spending outpoint
\* with a proof of the outpoint's pixel
IsOutputFrozen(outpoint) ==
    LET st == is_output_frozen([tx_storage |-> tx_storage, frozen |-> frozen], outpoint)
    IN /\ tx_storage' = st.tx_storage
       /\ frozen' = st.frozen
       /\ verdict' = st.verdict
       /\ checked_outpoint' = outpoint
       /\ last_op' = "is_output_frozen"
       /\ prev' = None
       /\ UNCHANGED << pages, pages_number, chroma_info, builder_vars, config_vars,
                       call_vars, now, attach_log, page_writes, calls, doomed,
                       worker_vars, validator_vars,
                    checker_vars, indexer_vars, codec_vars, node_vars, ext_vars >>

-----------------------------------------------------------------------------
(* Checker workers: chroma and issue announcements                         *)
(* (crates/tx-check/src/worker.rs, crates/tx-check/src/announcements.rs)   *)

Workers == 1..NumWorkers

\* the announcements of the traffic: the signer is the chroma whose key signs
\* an input of the announcement transaction
ChromaAnnouncements ==
    [kind : {"Chroma"}, chroma : Chromas, signer : Chromas,
     max_supply : 0..MaxSupply, is_freezable : BOOLEAN]
IssueAnnouncements ==
    [kind : {"Issue"}, chroma : Chromas, signer : Chromas, amount : 1..MaxSupply]

IdleWorker == [pc |-> "idle", announcement |-> None, chroma_info |-> None]

\* put_chroma_info
put_chroma_info(infos, chroma, announcement, total_supply) ==
    [infos EXCEPT ![chroma] =
        Some([announcement |-> announcement, total_supply |-> total_supply])]

\* check_chroma_announcement
check_chroma_announcement(a) ==
    IF ~find_issuer_in_txinputs({XOnlyKey(a.signer)}, a.chroma) THEN FALSE
    ELSE IF chroma_info[a.chroma] # None
            /\ chroma_info[a.chroma][1].total_supply > a.max_supply THEN FALSE
    ELSE TRUE

\* check_issue_announcement
check_issue_announcement(a) ==
    IF ~find_issuer_in_txinputs({XOnlyKey(a.signer)}, a.chroma) THEN FALSE
    ELSE IF /\ chroma_info[a.chroma] # None
            /\ chroma_info[a.chroma][1].announcement # None
            /\ chroma_info[a.chroma][1].announcement[1].max_supply # 0
            /\ chroma_info[a.chroma][1].announcement[1].max_supply
                   < chroma_info[a.chroma][1].total_supply + a.amount THEN FALSE
    ELSE TRUE

\* check_announcements
check_announcements(a) ==
    IF a.kind = "Chroma" THEN check_chroma_announcement(a) ELSE check_issue_announcement(a)

\* a worker takes an announcement transaction off the event bus
ReceiveAnnouncement(w, a) ==
    /\ worker[w].pc = "idle"
    /\ calls < MaxAnnouncements
    /\ calls' = calls + 1
    /\ worker' = [worker EXCEPT ![w] = [IdleWorker EXCEPT !.pc = "check", !.announcement = Some(a)]]
    /\ UNCHANGED << store_vars, chroma_info, builder_vars, config_vars, call_vars, now,
                    attach_log, page_writes, last_op, prev, doomed, verdict,
                    checked_outpoint, validator_vars,
                    checker_vars, indexer_vars, codec_vars, node_vars, ext_vars >>

\* check_announcements; a valid announcement goes on to be applied
CheckAnnouncement(w) ==
    /\ worker[w].pc = "check"
    /\ worker' = [worker EXCEPT ![w] =
                     IF check_announcements(worker[w].announcement[1])
                     THEN [@ EXCEPT !.pc = "apply"]
                     ELSE IdleWorker]
    /\ UNCHANGED << store_vars, chroma_info, builder_vars, config_vars, call_vars, now,
                    attach_log, page_writes, last_op, calls, prev, doomed, verdict,
                    checked_outpoint, validator_vars,
                    checker_vars, indexer_vars, codec_vars, node_vars, ext_vars >>

\* update_supply and add_chroma_announcements: get_chroma_info
ApplyGetChromaInfo(w) ==
    /\ worker[w].pc = "apply"
    /\ LET a == worker[w].announcement[1]
           info == chroma_info[a.chroma]
       IN worker' = [worker EXCEPT ![w] =
                        IF a.kind = "Chroma" /\ info # None /\ info[1].announcement # None
                        THEN IdleWorker
                        ELSE [@ EXCEPT !.pc = "put", !.chroma_info = info]]
    /\ UNCHANGED << store_vars, chroma_info, builder_vars, config_vars, call_vars, now,
                    attach_log, page_writes, last_op, calls, prev, doomed, verdict,
                    checked_outpoint, validator_vars,
                    checker_vars, indexer_vars, codec_vars, node_vars, ext_vars >>

\* add_chroma_announcements: put_chroma_info
add_chroma_announcements(a, info) ==
    put_chroma_info(chroma_info, a.chroma,
        Some([max_supply |-> a.max_supply, is_freezable |-> a.is_freezable]),
        IF info # None THEN info[1].total_supply ELSE 0)

\* update_supply: put_chroma_info
update_supply(a, info) ==
    IF info # None
    THEN put_chroma_info(chroma_info, a.chroma, info[1].announcement,
             info[1].total_supply + a.amount)
    ELSE put_chroma_info(chroma_info, a.chroma, None, a.amount)

\* update_supply and add_chroma_announcements: put_chroma_info
ApplyPutChromaInfo(w) ==
    /\ worker[w].pc = "put"
    /\ LET a == worker[w].announcement[1]
           info == worker[w].chroma_info
       IN chroma_info' = IF a.kind = "Chroma"
                         THEN add_chroma_announcements(a, info)
                         ELSE update_supply(a, info)
    /\ worker' = [worker EXCEPT ![w] = IdleWorker]
    /\ last_op' = "put_chroma_info"
    /\ UNCHANGED << store_vars, builder_vars, config_vars, call_vars, now,
                    attach_log, page_writes, calls, prev, doomed, verdict,
                    checked_outpoint, validator_vars,
                    checker_vars, indexer_vars, codec_vars, node_vars, ext_vars >>

-----------------------------------------------------------------------------
(* The isolated validator (crates/tx-check/src/transaction.rs)             *)

\* u128, scaled to LumaBits bits
Modulus == 2 ^ LumaBits
Lumas == {0, 1, Modulus \div 2}

\* the chroma of Pixel::empty(): a sentinel no key equals
EmptyChroma == "c0"
EmptyPixelProof == [chroma |-> EmptyChroma, luma |-> 0, empty |-> TRUE]
PixelProofs ==
    [chroma : Chromas, luma : Lumas, empty : {FALSE}] \cup {EmptyPixelProof}

\* sequences of at most n proofs: a ProofMap in the order of its keys
ProofMaps(n) == UNION {[1..k -> PixelProofs] : k \in 0..n}

\* the transfers under check.  non_op_return_outputs counts the outputs of
\* bitcoin_tx that are not OP_RETURN; mapped says every key of the proof maps
\* is an input or output of bitcoin_tx; proofs_valid says every
\* checked_check_by_input and checked_check_by_output succeeds
Transfers(max_input_proofs, max_output_proofs) ==
    {[tx_type |-> "Transfer", input_proofs |-> ins, output_proofs |-> outs,
      non_op_return_outputs |-> Len(outs) + extra, mapped |-> m, proofs_valid |-> v] :
        ins \in ProofMaps(max_input_proofs), outs \in ProofMaps(max_output_proofs),
        extra \in {0, 1}, m \in BOOLEAN, v \in BOOLEAN}

\* the issues under check.  output_proofs is an Option; found_announcement is
\* what check_issue_announcement meets in the outputs: no IssueAnnouncement,
\* the provided one or another one; amount is the provided announcement's;
\* witness_keys are the x-only keys of the P2WPKH inputs
IssuerKeys == {XOnlyKey("c1"), EmptyPixelKey("c1"), XOnlyKey("c2")}
Issues(max_issue_proofs) ==
    {[tx_type |-> "Issue", output_proofs |-> outs,
      non_op_return_outputs |-> (IF outs = None THEN 0 ELSE Len(outs[1])) + extra,
      mapped |-> m, proofs_valid |-> v, found_announcement |-> f, amount |-> a,
      witness_keys |-> keys] :
        outs \in {None} \cup {Some(o) : o \in ProofMaps(max_issue_proofs)},
        extra \in {0, 1}, m \in BOOLEAN, v \in BOOLEAN,
        f \in {"none", "same", "other"}, a \in 0..(Modulus - 1),
        keys \in SUBSET IssuerKeys}

\* the outputs of an Issue's Bitcoin transaction: a pay-to-key output, an
\* OP_RETURN with other data, or an OP_RETURN with the IssueAnnouncement of
\* the tx type
IssueOutputKinds == {"pay", "op_return", "announcement"}
IssueOutputs == UNION {[1 .. k -> IssueOutputKinds] : k \in 1 .. MaxIssueOutputs}

\* script_pubkey.is_op_return()
is_op_return(output) == output # "pay"

\* the proof maps of those Issues, by vout (from 0, one past the last output
\* included): a proof of chroma c1 and whether checked_check_by_output
\* accepts it for the output at its vout
VoutProofs == [luma : {0, 1}, valid : BOOLEAN]
VoutProofMaps ==
    UNION {[keys -> VoutProofs] : keys \in SUBSET (0 .. MaxIssueOutputs)}

\* extract_from_iterable_by_proof_map(..).is_ok(): every key of the proof
\* map is an index of the inputs or outputs
extract_from_iterable_by_proof_map(proof_map, iterable) ==
    \A vout \in DOMAIN proof_map : vout < Len(iterable)

\* check_issue_isolated's loop over gathered_outputs: the proofs of
\* OP_RETURN outputs are skipped, every other is checked by its output
check_gathered_outputs(proof_map, outputs) ==
    \A vout \in DOMAIN proof_map :
        vout < Len(outputs) =>
            is_op_return(outputs[vout + 1]) \/ proof_map[vout].valid

\* the Issue of a Bitcoin transaction with these outputs and this proof map,
\* as check_issue_isolated reads it
OutputIssue(outputs, proof_map, amount, keys) ==
    LET vouts == SortedKeys(DOMAIN proof_map)
    IN  [tx_type |-> "Issue",
         output_proofs |-> Some([i \in 1 .. Len(vouts) |->
                                    [chroma |-> "c1", luma |-> proof_map[vouts[i]].luma,
                                     empty |-> FALSE]]),
         non_op_return_outputs |->
             Cardinality({i \in 1 .. Len(outputs) : ~is_op_return(outputs[i])}),
         mapped |-> extract_from_iterable_by_proof_map(proof_map, outputs),
         proofs_valid |-> check_gathered_outputs(proof_map, outputs),
         found_announcement |->
             IF \E i \in 1 .. Len(outputs) : outputs[i] = "announcement"
             THEN "same" ELSE "none",
         amount |-> amount, witness_keys |-> keys,
         outputs |-> outputs, proof_map |-> proof_map]

\* the Issues under check, output by output
OutputIssues ==
    {OutputIssue(outputs, proof_map, amount, keys) :
        outputs \in IssueOutputs, proof_map \in VoutProofMaps,
        amount \in 0 .. MaxIssueOutputs,
        keys \in {{XOnlyKey("c1")}, {XOnlyKey("c2")}}}

\* u128 addition: [value, panic]; with overflow checks an overflow panics,
\* without them it wraps
add_u128(a, b) ==
    [value |-> (a + b) % Modulus, panic |-> overflow_checks /\ a + b >= Modulus]

\* sum_amount_by_chroma, on a record [chromas, panic]
RECURSIVE sum_amount_by_chroma(_, _)
sum_amount_by_chroma(proofs, acc) ==
    IF proofs = << >> \/ acc.panic THEN acc
    ELSE LET proof == Head(proofs)
         IN IF proof.empty \/ proof.luma = 0
            THEN sum_amount_by_chroma(Tail(proofs), acc)
            ELSE LET chroma_sum == add_u128(Get(acc.chromas, proof.chroma, 0), proof.luma)
                 IN sum_amount_by_chroma(Tail(proofs),
                        [chromas |-> Put(acc.chromas, proof.chroma, chroma_sum.value),
                         panic |-> chroma_sum.panic])

\* check_transfer_conservation_rules
check_transfer_conservation_rules(inputs, outputs) ==
    LET none == [chromas |-> [c \in {} |-> 0], panic |-> FALSE]
        input_chromas == sum_amount_by_chroma(inputs, none)
        output_chromas == sum_amount_by_chroma(outputs, none)
    IN IF input_chromas.panic \/ output_chromas.panic THEN "panic"
       ELSE IF input_chromas.chromas # output_chromas.chromas
       THEN "ConservationRulesViolated"
       ELSE "Ok"

\* check_number_of_proofs
check_number_of_proofs(tx, proofs) == tx.non_op_return_outputs = Len(proofs)

\* PixelProof::is_bulletproof, get_bulletproof().is_some(): the proof is of
\* the Bulletproof variant, which carries a commiter key and a commitment
proof_is_bulletproof(proof) == "commitment" \in DOMAIN proof

\* the Bulletproof proofs: commiter is a public key (never the point at
\* infinity), commitment a point, both elements of a group of GroupOrder
Bulletproofs ==
    [chroma : {"c1"}, luma : {0}, empty : {FALSE},
     commiter : 1 .. GroupOrder - 1, commitment : 0 .. GroupOrder - 1]

\* the transfers with Bulletproof proofs under check: every proof is mapped
\* to an input or output and passes its own check
BulletproofTransfers ==
    LET proofs == Bulletproofs \cup {[chroma |-> "c1", luma |-> 1, empty |-> FALSE],
                                     EmptyPixelProof}
        maps == UNION {[1 .. k -> proofs] : k \in 1 .. MaxBulletproofs}
    IN  {[tx_type |-> "Transfer", input_proofs |-> ins, output_proofs |-> outs,
          non_op_return_outputs |-> Len(outs), mapped |-> TRUE,
          proofs_valid |-> TRUE] : ins \in maps, outs \in maps}

\* is_bulletproof: the loop over inputs.values().chain(outputs.values())
RECURSIVE is_bulletproof_loop(_, _)
is_bulletproof_loop(proofs, was_found) ==
    IF proofs = << >>
    THEN [error |-> FALSE, was_found |-> was_found]
    ELSE IF Head(proofs).empty
    THEN is_bulletproof_loop(Tail(proofs), was_found)
    ELSE IF was_found /\ ~proof_is_bulletproof(Head(proofs))
    THEN [error |-> TRUE, was_found |-> was_found]
    ELSE is_bulletproof_loop(
             Tail(proofs),
             IF proof_is_bulletproof(Head(proofs)) THEN TRUE ELSE was_found)

\* is_bulletproof
is_bulletproof(inputs, outputs) == is_bulletproof_loop(inputs \o outputs, FALSE)

\* owners.reduce(|acc, owner| acc.combine(&owner.negate()).expect(..)):
\* 0 when a sum is the point at infinity and expect panics
RECURSIVE merge_owners(_, _)
merge_owners(acc, owners) ==
    IF owners = << >> THEN acc
    ELSE LET combined == (acc + GroupOrder - Head(owners)) % GroupOrder
         IN  IF combined = 0 THEN 0 ELSE merge_owners(combined, Tail(owners))

\* commits.reduce(|acc, commit| acc - commit)
RECURSIVE merge_commits(_, _)
merge_commits(acc, commits) ==
    IF commits = << >> THEN acc
    ELSE merge_commits((acc + GroupOrder - Head(commits)) % GroupOrder,
                       Tail(commits))

\* are_commitments_equal: "panic", an error, or the boolean of Ok(..)
are_commitments_equal(inputs_proofs, outputs_proofs) ==
    LET proofs == SelectSeq(inputs_proofs \o outputs_proofs,
                            LAMBDA proof : ~proof.empty)
    IN  IF \E i \in 1 .. Len(proofs) : ~proof_is_bulletproof(proofs[i])
        THEN "panic"
        ELSE IF proofs = << >>
        THEN "AtLeastOneCommitment"
        ELSE LET merged_owner ==
                     merge_owners(proofs[1].commiter,
                                  [i \in 1 .. Len(proofs) - 1 |->
                                      proofs[i + 1].commiter])
                 raw_merged_commit ==
                     merge_commits(proofs[1].commitment,
                                   [i \in 1 .. Len(proofs) - 1 |->
                                       proofs[i + 1].commitment])
             IN  IF merged_owner = 0 THEN "panic"
                 ELSE IF merged_owner = raw_merged_commit THEN "true"
                 ELSE "false"

\* check_transfer_isolated.  The bulletproof branch is the one of the build
\* with the bulletproof feature; without the feature no proof is of the
\* Bulletproof variant and the branch is never taken
check_transfer_isolated(tx) ==
    IF ~check_number_of_proofs(tx, tx.output_proofs) THEN "NotEnoughProofs"
    ELSE IF ~tx.mapped THEN "ProofMappedToNotExistingInputOutput"
    ELSE IF ~tx.proofs_valid THEN "InvalidProof"
    ELSE LET bulletproof == is_bulletproof(tx.input_proofs, tx.output_proofs)
             equal == are_commitments_equal(tx.input_proofs, tx.output_proofs)
         IN  IF bulletproof.error THEN "MixedBulletproofsAndNonBulletproofs"
             ELSE IF bulletproof.was_found
             THEN IF equal \in {"panic", "AtLeastOneCommitment"}
                  THEN equal
                  ELSE "Ok"
             ELSE check_transfer_conservation_rules(tx.input_proofs,
                                                    tx.output_proofs)

\* check_same_chroma_proofs
check_same_chroma_proofs(proofs) ==
    LET filtered_proofs == SelectSeq(proofs, LAMBDA proof : ~proof.empty)
    IN IF filtered_proofs = << >> THEN TRUE
       ELSE \A i \in 1..Len(filtered_proofs) :
                filtered_proofs[i].chroma = filtered_proofs[1].chroma

\* output_proofs.values().map(|proof| proof.pixel().luma.amount).sum::<u128>(),
\* on a record [value, panic]
RECURSIVE sum_u128(_, _)
sum_u128(proofs, acc) ==
    IF proofs = << >> \/ acc.panic THEN acc
    ELSE sum_u128(Tail(proofs), add_u128(acc.value, Head(proofs).luma))

\* check_issue_conservation_rules
check_issue_conservation_rules(outputs, tx) ==
    IF outputs = << >> THEN "EmptyOutputs"
    ELSE IF ~find_issuer_in_txinputs(tx.witness_keys, outputs[1].chroma)
    THEN "IssuerNotOwner"
    ELSE "Ok"

\* check_issue_isolated
check_issue_isolated(tx) ==
    IF tx.output_proofs = None THEN "NotEnoughProofs"
    ELSE LET output_proofs == tx.output_proofs[1]
             announced_amount == IF tx.found_announcement = "same" THEN tx.amount ELSE 0
             total_amount == sum_u128(output_proofs, [value |-> 0, panic |-> FALSE])
         IN IF tx.found_announcement = "other" THEN "IssueAnnouncementMismatch"
            ELSE IF ~check_number_of_proofs(tx, output_proofs) THEN "NotEnoughProofs"
            ELSE IF ~check_same_chroma_proofs(output_proofs) THEN "NotSameChroma"
            ELSE IF ~tx.mapped THEN "ProofMappedToNotExistingInputOutput"
            ELSE IF ~tx.proofs_valid THEN "InvalidProof"
            ELSE IF total_amount.panic THEN "panic"
            ELSE IF total_amount.value # announced_amount
            THEN "AnnouncedAmountDoesNotMatch"
            ELSE check_issue_conservation_rules(output_proofs, tx)

\* check_transaction
check_transaction(tx) ==
    IF tx.tx_type = "Issue" THEN check_issue_isolated(tx)
    ELSE IF tx.tx_type = "Announcement" THEN "Ok"
    ELSE check_transfer_isolated(tx)

\* check_transaction is run on the transaction in hand
CheckTransaction ==
    /\ yuv_tx # None
    /\ check_result = "none"
    /\ check_result' = check_transaction(yuv_tx[1])
    /\ UNCHANGED << store_vars, chroma_info, builder_vars, config_vars, call_vars, now,
                    attach_log, page_writes, last_op, calls, prev, doomed, verdict,
                    checked_outpoint, worker_vars, yuv_tx, overflow_checks,
                    checker_vars, indexer_vars, codec_vars, node_vars, ext_vars >>

-----------------------------------------------------------------------------
(* Checker worker: check_txs (crates/tx-check/src/worker.rs)               *)

Peers == {"P"}

\* the NewTxs batches: transactions of the traffic, none twice
CheckBatches ==
    {txs \in UNION {[1..k -> known] : k \in 1..MaxCheckBatch} :
        \A i, j \in 1..Len(txs) : i # j => txs[i] # txs[j]}

\* previous_output of the inputs that have an input proof, by vin
InputOutpoints(t) == [i \in 1..Len(InputParents(t)) |-> "o1"]

\* freeze_txid() of the outpoint a freeze announcement names
FreezeTxid(outpoint) == "ci"

\* the YuvTransaction of a txid, as check_transaction reads it
Proof(chroma, luma) == [chroma |-> chroma, luma |-> luma, empty |-> FALSE]
IsolatedTx(t) ==
    LET transfer(outs) ==
            [tx_type |-> "Transfer", input_proofs |-> << Proof("c1", 1) >>,
             output_proofs |-> outs, non_op_return_outputs |-> Len(outs),
             mapped |-> TRUE, proofs_valid |-> TRUE]
    IN CASE t = "ci" ->
              [tx_type |-> "Issue", output_proofs |-> Some(<< Proof("c1", 1) >>),
               non_op_return_outputs |-> 1, mapped |-> TRUE, proofs_valid |-> TRUE,
               found_announcement |-> "same", amount |-> 1,
               witness_keys |-> WitnessKeys(t)]
         [] t = "ct" -> transfer(<< Proof("c1", 1) >>)
         [] t = "cb" -> transfer(<< Proof("c1", Modulus \div 2) >>)
         [] t = "co" -> transfer(<< Proof("c1", Modulus \div 2),
                                     Proof("c1", Modulus \div 2) >>)
         [] OTHER -> [tx_type |-> "Announcement"]

\* the IssueAnnouncement of an Issue
IssueAnnouncementOf(t) ==
    [kind |-> "Issue", chroma |-> "c1", signer |-> "c1", amount |-> 1]

\* the order of the txids (BTreeMap<Txid, _>::values)
TxidOrder == << "cb", "cf", "cg", "ci", "co", "ct", "cz" >>
SortByTxid(S) == SelectSeq(TxidOrder, LAMBDA t : t \in S)

\* check_freeze_announcement, on the stores of a check_txs call
check_freeze_announcement(st, t) ==
    LET outpoint == Head(Freezes(t))
        chroma == PixelChroma(outpoint)
    IN IF FreezeTxid(outpoint) \notin st.tx_storage THEN TRUE
       ELSE IF NotFreezable(chroma) THEN FALSE
       ELSE find_issuer_in_txinputs(WitnessKeys(t), chroma)

\* check_transfer: the loop over input_proofs from the i-th on
RECURSIVE check_transfer(_, _, _)
check_transfer(st, t, i) ==
    IF i > Len(InputParents(t)) THEN [st EXCEPT !.is_tx_checked = TRUE]
    ELSE LET parent == InputParents(t)[i]
             fr == is_output_frozen([tx_storage |-> st.tx_storage, frozen |-> st.frozen],
                                    InputOutpoints(t)[i])
             st1 == [st EXCEPT !.tx_storage = fr.tx_storage, !.frozen = fr.frozen]
             is_in_storage == parent \in st1.tx_storage
         IN IF fr.verdict = "error" THEN [st1 EXCEPT !.result = "err"]
            ELSE IF fr.verdict = "frozen"
            THEN [st1 EXCEPT !.invalid_txs = Append(@, t), !.is_tx_checked = FALSE]
            ELSE IF ~is_in_storage /\ parent \notin st1.checked_txs
            THEN check_transfer(
                     [st1 EXCEPT !.not_found_parents = Append(@, parent)], t, i + 1)
            ELSE check_transfer(st1, t, i + 1)

\* what bitcoin_client.get_raw_transaction answers for a transaction: the
\* transaction, another one, or an error of the RPC call
RpcAnswers == {"same", "other", "error"}

\* the Bitcoin node answers every call with the transaction asked for
Answered(txs) == [t \in Range(txs) |-> "same"]

\* check_tx_isolated: "Ok", "panic" or the error
check_tx_isolated(t, got_tx) ==
    IF got_tx = "error" THEN "Connection"
    ELSE IF got_tx = "other" THEN "TransactionMismatch"
    ELSE check_transaction(IsolatedTx(t))

\* check_txs: one round of the loop over txs
check_tx(st, t) ==
    LET isolated == check_tx_isolated(t, st.got_txs[t])
        checked == [st EXCEPT !.is_tx_checked = TRUE]
        unchecked == [st EXCEPT !.is_tx_checked = FALSE]
        refused == [st EXCEPT !.invalid_txs = Append(@, t), !.is_tx_checked = FALSE]
    IN IF isolated = "panic" THEN [st EXCEPT !.result = "panic"]
       ELSE IF isolated # "Ok" THEN [st EXCEPT !.invalid_txs = Append(@, t)]
       ELSE LET st1 ==
                    CASE TxType(t) = "Issue" ->
                            IF check_issue_announcement(IssueAnnouncementOf(t))
                            THEN checked ELSE refused
                      [] TxType(t) = "FreezeToggle" ->
                            IF t \in invalid THEN unchecked
                            ELSE IF check_freeze_announcement(st, t)
                            THEN checked ELSE refused
                      [] OTHER -> check_transfer(st, t, 1)
            IN IF st1.result = "ok" /\ st1.is_tx_checked
               THEN [st1 EXCEPT !.checked_txs = @ \cup {t}]
               ELSE st1

\* check_txs: the loop over txs
RECURSIVE check_txs(_, _)
check_txs(st, txs) ==
    IF txs = << >> \/ st.result # "ok" THEN st
    ELSE check_txs(check_tx(st, Head(txs)), Tail(txs))

\* a worker handles TxCheckerMessage::NewTxs {txs, sender}
CheckTxs(txs, peer_addr, got_txs) ==
    /\ checks < MaxChecks
    /\ Len(checked_channel) < MaxChannel
    /\ checks' = checks + 1
    /\ LET st == check_txs(
                    [tx_storage |-> tx_storage, frozen |-> frozen, checked_txs |-> {},
                     invalid_txs |-> << >>, not_found_parents |-> << >>,
                     is_tx_checked |-> FALSE, result |-> "ok",
                     got_txs |-> got_txs], txs)
           checked == SortByTxid(st.checked_txs)
           checked_msg == IF checked = << >> THEN << >>
                          ELSE << [kind |-> "CheckedTxs", txs |-> checked] >>
           invalid_msg == IF st.invalid_txs = << >> THEN << >>
                          ELSE << [kind |-> "InvalidTxs", tx_ids |-> st.invalid_txs,
                                   sender |-> peer_addr] >>
           get_data_msg == IF st.not_found_parents = << >> \/ peer_addr = None THEN << >>
                           ELSE << [kind |-> "GetData", inv |-> st.not_found_parents,
                                    receiver |-> peer_addr[1]] >>
       IN /\ tx_storage' = st.tx_storage
          /\ frozen' = st.frozen
          /\ new_txs' = Some([txs |-> txs, sender |-> peer_addr, result |-> st.result,
                              tx_storage |-> tx_storage, got_txs |-> got_txs])
          /\ IF st.result = "ok"
             THEN /\ events' = checked_msg \o invalid_msg \o get_data_msg
                  /\ invalid' = invalid \cup Range(st.invalid_txs)
                  /\ checked_channel' = IF checked = << >> THEN checked_channel
                                        ELSE Append(checked_channel, checked)
             ELSE /\ events' = << >>
                  /\ UNCHANGED << invalid, checked_channel >>
    /\ UNCHANGED << pages, pages_number, chroma_info, builder_vars, config_vars,
                    call_vars, now, attach_log, page_writes, last_op, calls, prev,
                    doomed, verdict, checked_outpoint, worker_vars, validator_vars,
                    incoming, indexer_vars, codec_vars, node_vars, ext_vars >>

\* the GraphBuilder receives GraphBuilderMessage::CheckedTxs: attach_txs is entered
ReceiveCheckedTxs ==
    /\ pc = "idle"
    /\ checked_channel # << >>
    /\ incoming' = Head(checked_channel)
    /\ checked_channel' = Tail(checked_channel)
    /\ pc' = "first_pass"
    /\ calls' = calls + 1
    /\ batch' = << >>
    /\ queued_txs' = {}
    /\ local_queue' = {}
    /\ attached_txs' = << >>
    /\ prev' = Some([batch |-> batch, state |-> Snapshot,
                      consecutive |-> last_op = "attach_txs"])
    /\ last_op' = "attach_txs_step"
    /\ UNCHANGED << store_vars, chroma_info, builder_vars, config_vars, now, attach_log,
                    page_writes, doomed, verdict, checked_outpoint, worker_vars,
                    validator_vars, invalid, events, new_txs, checks, indexer_vars,
                    codec_vars, node_vars, ext_vars >>

\* attach_txs, first loop: the next transaction of the received batch
FirstPassChecked ==
    /\ pc = "first_pass"
    /\ incoming # << >>
    /\ LET t == Head(incoming)
       IN /\ batch' = Append(batch, t)
          /\ CASE TxType(t) = "Issue" -> AttachIssue(t)
               [] TxType(t) = "FreezeToggle" -> AttachFreezeToggle(t)
               [] OTHER -> handle_transfer(t)
    /\ incoming' = Tail(incoming)
    /\ last_op' = "attach_txs_step"
    /\ UNCHANGED << pages, pages_number, chroma_info, config_vars, pc, local_queue, now,
                    page_writes, calls, prev, doomed, verdict, checked_outpoint,
                    worker_vars, validator_vars, invalid, events, new_txs,
                    checked_channel, checks, indexer_vars, codec_vars, node_vars, ext_vars >>

\* attach_txs: the received batch is through the first loop
EndFirstPassChecked ==
    /\ pc = "first_pass"
    /\ incoming = << >>
    /\ batch # << >>
    /\ pc' = "queue"
    /\ last_op' = "attach_txs_step"
    /\ UNCHANGED << store_vars, chroma_info, builder_vars, config_vars, batch, queued_txs,
                    local_queue, attached_txs, now, attach_log, page_writes,
                    calls, prev, doomed, verdict, checked_outpoint, worker_vars,
                    validator_vars, checker_vars, indexer_vars, codec_vars, node_vars, ext_vars >>

-----------------------------------------------------------------------------
(* Block indexer: BitcoinBlockIndexer over the Bitcoin node's chain        *)

\* a block of the Bitcoin node; two blocks of one height differ by branch
Block(h, br) == [height |-> h, branch |-> br]

Branches == {0, 1}

\* BitcoinRpcApi::get_best_block_hash
get_best_block_hash == chain[Len(chain)]

\* the block is on the node's active chain
InActiveChain(block) ==
    /\ block.height < Len(chain)
    /\ chain[block.height + 1] = block

\* GetBlockTxResult.block_data.nextblockhash: the node reports a successor
\* only for a block of the active chain below the tip
nextblockhash(block) ==
    IF InActiveChain(block) /\ block.height + 1 < Len(chain)
    THEN Some(chain[block.height + 2])
    ELSE None

\* the Bitcoin node finds a block on top of its chain
MineBlock(br) ==
    /\ Len(chain) <= MaxHeight
    /\ chain' = Append(chain, Block(Len(chain), br))
    /\ last_op' = "mine"
    /\ UNCHANGED << store_vars, chroma_info, builder_vars, config_vars, call_vars, now,
                    attach_log, page_writes, calls, prev, doomed, verdict,
                    checked_outpoint, worker_vars, validator_vars, checker_vars,
                    last_indexed, index_log, indexer_pc, polls, tick_info,
                    codec_vars, node_vars, ext_vars >>

\* the Bitcoin node switches to a chain whose tip replaces its last block
ReorgTip ==
    /\ Len(chain) > 1
    /\ chain' = [chain EXCEPT ![Len(chain)] =
                     Block(Len(chain) - 1, 1 - chain[Len(chain)].branch)]
    /\ last_op' = "reorg"
    /\ UNCHANGED << store_vars, chroma_info, builder_vars, config_vars, call_vars, now,
                    attach_log, page_writes, calls, prev, doomed, verdict,
                    checked_outpoint, worker_vars, validator_vars, checker_vars,
                    last_indexed, index_log, indexer_pc, polls, tick_info,
                    codec_vars, node_vars, ext_vars >>

\* what makes one operation fail: no sub-indexer, or sub-indexer `indexer`
\* at the `at`-th index_block call of the operation
Failures ==
    {None} \cup {Some([at |-> k, indexer |-> i]) :
                    k \in 1 .. MaxHeight + 1, i \in 1 .. NumIndexers}

\* no failure, or the first sub-indexer failing at the first index_block call
FirstFailures == {None, Some([at |-> 1, indexer |-> 1])}

\* the sub-indexer failing at the n-th index_block call (0: none)
FailingAt(fail, n) ==
    IF fail # None /\ fail[1].at = n THEN fail[1].indexer ELSE 0

\* index_block that stores the hash although a sub-indexer failed
index_block_put_on_error(st, block, failing) ==
    LET called == IF failing = 0 THEN NumIndexers ELSE failing
        results == [i \in 1 .. called |-> IF i = failing THEN "err" ELSE "ok"]
    IN  [last_indexed |-> Some(block),
         index_log |-> Append(st.index_log, [block |-> block, results |-> results]),
         ok |-> failing = 0]

\* index_block: the sub-indexers in registration order, `?` on the first
\* error, then put_last_indexed_hash
index_block(st, block, failing) ==
    LET called == IF failing = 0 THEN NumIndexers ELSE failing
        results == [i \in 1 .. called |-> IF i = failing THEN "err" ELSE "ok"]
        logged == Append(st.index_log, [block |-> block, results |-> results])
    IN  IF failing = 0
        THEN [last_indexed |-> Some(block), index_log |-> logged, ok |-> TRUE]
        ELSE [last_indexed |-> st.last_indexed, index_log |-> logged,
              ok |-> FALSE]

\* BitcoinBlockIndexer::get_block_height
get_block_height(block) == block.height

\* IndexingParams whose yuv_genesis_block_hash is absent or the block of the
\* active chain at one of the heights, and whose index_step_back is in steps
IndexingParams(heights, steps) ==
    [yuv_genesis_block_hash :
         {None} \cup {Some(chain[h + 1]) : h \in heights \cap (0 .. Len(chain) - 1)},
     index_step_back : steps]

\* IndexingParams from an IndexerConfig without step_back
DefaultIndexingParams ==
    {params \in IndexingParams(GenesisHeights, {DEFAULT_INDEX_STEP_BACK}) :
        params.yuv_genesis_block_hash # None}

\* IndexingParams from IndexerConfig::default()
UnsetIndexingParams ==
    [yuv_genesis_block_hash |-> None, index_step_back |-> DEFAULT_INDEX_STEP_BACK]

\* get_starting_block_height that starts at the last indexed block always
get_starting_block_height_no_genesis(params) ==
    IF last_indexed = None THEN 0 ELSE get_block_height(last_indexed[1])

\* get_starting_block_height
get_starting_block_height(params) ==
    LET last_indexed_height ==
            IF last_indexed = None THEN 0 ELSE get_block_height(last_indexed[1])
        params_hash == params.yuv_genesis_block_hash
    IN  IF params_hash # None /\ last_indexed_height < get_block_height(params_hash[1])
        THEN get_block_height(params_hash[1])
        ELSE last_indexed_height

\* what the block loader does: it leaves out the gap-th block of the range
\* (0: none) and ends with the result
BlockLoaders == [gap : 0 .. MaxHeight + 1, result : {"ok", "err", "join_err"}]
GoodBlockLoader == [gap |-> 0, result |-> "ok"]

\* BlockLoader::run: the blocks of the active chain from the starting height
\* to the tip, ascending and contiguous
LoadedBlocks(starting_block_height) ==
    SubSeq(chain, starting_block_height + 1, Len(chain))

\* the blocks a block loader sends to the indexer
SentBlocks(starting_block_height, loader) ==
    LET blocks == LoadedBlocks(starting_block_height)
    IN  [k \in 1 .. Len(blocks) - (IF loader.gap \in 1 .. Len(blocks) THEN 1 ELSE 0) |->
             IF loader.gap \in 1 .. k THEN blocks[k + 1] ELSE blocks[k]]

RECURSIVE init_blocks_handle_any_height(_, _, _, _, _)
RECURSIVE init_blocks_handle(_, _, _, _, _)

\* init_blocks_handle without the check of the heights
init_blocks_handle_any_height(st, blocks, i, indexer_last_block_height, fail) ==
    IF i > Len(blocks)
    THEN st
    ELSE LET r == index_block(st, blocks[i], FailingAt(fail, i))
         IN  IF ~r.ok
             THEN r
             ELSE init_blocks_handle_any_height(r, blocks, i + 1,
                                                blocks[i].height + 1, fail)

\* init_blocks_handle over the loaded blocks from the i-th on
init_blocks_handle(st, blocks, i, indexer_last_block_height, fail) ==
    IF i > Len(blocks)
    THEN st
    ELSE IF blocks[i].height # indexer_last_block_height
    THEN [st EXCEPT !.ok = FALSE]
    ELSE LET r == index_block(st, blocks[i], FailingAt(fail, i))
         IN  IF ~r.ok
             THEN r
             ELSE init_blocks_handle(r, blocks, i + 1,
                                     indexer_last_block_height + 1, fail)

\* init: the match on (blockloader_result, indexer_result)
init_result(blockloader_result, indexer_ok) ==
    IF blockloader_result = "ok"
    THEN IF indexer_ok THEN "Ok" ELSE "Indexer error"
    ELSE IF indexer_ok THEN "BlockLoader error"
    ELSE "BlockLoader error, Indexer error"

\* BitcoinBlockIndexer::init
IndexerInit(params, loader, fail) ==
    /\ indexer_pc = "off"
    /\ polls < MaxPolls
    /\ LET start == get_starting_block_height(params)
           blocks == SentBlocks(start, loader)
           r == init_blocks_handle(
                    [last_indexed |-> last_indexed, index_log |-> index_log,
                     ok |-> TRUE],
                    blocks, 1, start, fail)
           result == init_result(loader.result, r.ok)
       IN  /\ last_indexed' = r.last_indexed
           /\ index_log' = r.index_log
           /\ indexer_pc' = IF result = "Ok" THEN "run" ELSE "failed"
           /\ tick_info' = [op |-> "init", best |-> get_best_block_hash,
                            start |-> last_indexed, from |-> Len(index_log),
                            ok |-> r.ok, params |-> params,
                            starting_block_height |-> start, blocks |-> blocks,
                            blockloader_result |-> loader.result,
                            result |-> result]
    /\ polls' = polls + 1
    /\ last_op' = "indexer_init"
    /\ UNCHANGED << store_vars, chroma_info, builder_vars, config_vars, call_vars, now,
                    attach_log, page_writes, calls, prev, doomed, verdict,
                    checked_outpoint, worker_vars, validator_vars, checker_vars,
                    chain, codec_vars, node_vars, ext_vars >>

\* handle_new_blocks: the loop from current_block_hash along nextblockhash
RECURSIVE walk_blocks(_, _, _, _)
walk_blocks(st, current_block_hash, n, fail) ==
    LET r == index_block(st, current_block_hash, FailingAt(fail, n))
        next_block_hash == nextblockhash(current_block_hash)
    IN  IF ~r.ok
        THEN r
        ELSE IF next_block_hash = None
        THEN r
        ELSE walk_blocks(r, next_block_hash[1], n + 1, fail)

\* handle_new_blocks
handle_new_blocks(st, fail) ==
    LET best_block_hash == get_best_block_hash
        current_block_hash ==
            IF st.last_indexed = None THEN best_block_hash
            ELSE st.last_indexed[1]
    IN  IF current_block_hash = best_block_hash
        THEN st
        ELSE walk_blocks(st, current_block_hash, 1, fail)

\* one tick of BitcoinBlockIndexer::run
RunTick(fail) ==
    /\ indexer_pc = "run"
    /\ polls < MaxPolls
    /\ LET r == handle_new_blocks(
                    [last_indexed |-> last_indexed, index_log |-> index_log,
                     ok |-> TRUE], fail)
       IN  /\ last_indexed' = r.last_indexed
           /\ index_log' = r.index_log
           /\ tick_info' = [op |-> "tick", best |-> get_best_block_hash,
                            start |-> last_indexed, from |-> Len(index_log),
                            ok |-> r.ok]
    /\ polls' = polls + 1
    /\ last_op' = "run_tick"
    /\ UNCHANGED << store_vars, chroma_info, builder_vars, config_vars, call_vars, now,
                    attach_log, page_writes, calls, prev, doomed, verdict,
                    checked_outpoint, worker_vars, validator_vars, checker_vars,
                    chain, indexer_pc, codec_vars, node_vars, ext_vars >>

\* the node is stopped (cancellation) and started again
RestartIndexer ==
    /\ indexer_pc = "run"
    /\ polls < MaxPolls
    /\ indexer_pc' = "off"
    /\ last_op' = "restart"
    /\ UNCHANGED << store_vars, chroma_info, builder_vars, config_vars, call_vars, now,
                    attach_log, page_writes, calls, prev, doomed, verdict,
                    checked_outpoint, worker_vars, validator_vars, checker_vars,
                    chain, last_indexed, index_log, polls, tick_info,
                    codec_vars, node_vars, ext_vars >>

-----------------------------------------------------------------------------
(* Consensus encoding, OP_RETURN scripts and announcement bytes            *)
(* A byte string is a sequence of 0 .. 255; a reader is the rest of the    *)
(* byte string; a Script is its sequence of instructions                   *)

\* Ok(value) with the bytes the reader has left
Decoded(v, rest) == [ok |-> TRUE, value |-> v, rest |-> rest]

\* Err(error)
DecodeError(e) == [ok |-> FALSE, value |-> e, rest |-> << >>]

\* the n low bytes of v, least significant first (an `as` cast to the
\* n-byte integer followed by to_le_bytes)
to_le_bytes(v, n) == [k \in 1 .. n |-> (v \div 256 ^ (k - 1)) % 256]

\* the n low bytes of v, most significant first
to_be_bytes(v, n) == [k \in 1 .. n |-> (v \div 256 ^ (n - k)) % 256]

RECURSIVE from_le_bytes(_)
from_le_bytes(bytes) ==
    IF bytes = << >> THEN 0 ELSE bytes[1] + 256 * from_le_bytes(Tail(bytes))

from_be_bytes(bytes) ==
    from_le_bytes([k \in 1 .. Len(bytes) |-> bytes[Len(bytes) + 1 - k]])

\* reading n bytes from the reader
read_exact(reader, n) ==
    IF Len(reader) < n
    THEN DecodeError("Io")
    ELSE Decoded(SubSeq(reader, 1, n), SubSeq(reader, n + 1, Len(reader)))

\* reading a little-endian integer of n bytes from the reader
read_uint(reader, n) ==
    LET bytes == read_exact(reader, n)
    IN  IF ~bytes.ok THEN bytes
        ELSE Decoded(from_le_bytes(bytes.value), bytes.rest)

\* u8 and u32: Decodable::consensus_decode
decode_u8(reader) == read_uint(reader, 1)
decode_u32(reader) == read_uint(reader, 4)

\* Txid: the 32 bytes of the hash
decode_txid(reader) == read_exact(reader, TX_ID_SIZE)

\* PixelProof: one byte that names the proof
encode_proof(proof) == << proof >>
decode_proof(reader) == read_uint(reader, 1)

\* bitcoin::Transaction: one byte that names the transaction
encode_bitcoin_tx(tx) == << tx >>
decode_bitcoin_tx(reader) == read_uint(reader, 1)

RECURSIVE Flatten(_)
Flatten(chunks) ==
    IF chunks = << >> THEN << >> ELSE chunks[1] \o Flatten(Tail(chunks))

\* Encodable for ProofsWrapper
encode_proofs(proofs) ==
    LET keys == SortedKeys(DOMAIN proofs)
    IN  to_le_bytes(Cardinality(DOMAIN proofs), 4)
        \o Flatten([i \in 1 .. Len(keys) |->
                       to_le_bytes(keys[i], 4) \o encode_proof(proofs[keys[i]])])

\* Decodable for ProofsWrapper: the loop `for _ in 0..len`
RECURSIVE decode_proof_entries(_, _, _)
decode_proof_entries(reader, len, proofs) ==
    IF len = 0
    THEN Decoded(proofs, reader)
    ELSE LET key == decode_u32(reader)
             value == decode_proof(key.rest)
         IN  IF ~key.ok THEN key
             ELSE IF ~value.ok THEN value
             ELSE decode_proof_entries(
                      value.rest, len - 1,
                      [k \in DOMAIN proofs \cup {key.value} |->
                          IF k = key.value THEN value.value ELSE proofs[k]])

\* Decodable for ProofsWrapper
decode_proofs(reader) ==
    LET len == decode_u32(reader)
    IN  IF ~len.ok THEN len
        ELSE decode_proof_entries(len.rest, len.value, EmptyMap)

\* Encodable for FreezeTxToggle
encode_freeze(freeze) == freeze.txid \o to_le_bytes(freeze.vout, 4)

\* Decodable for FreezeTxToggle
decode_freeze(reader) ==
    LET txid == decode_txid(reader)
        vout == decode_u32(txid.rest)
    IN  IF ~txid.ok THEN txid
        ELSE IF ~vout.ok THEN vout
        ELSE Decoded([txid |-> txid.value, vout |-> vout.value], vout.rest)

\* Decodable for YuvTxType, FreezeToggle arm: (0..len).map(decode).collect()
RECURSIVE decode_freezes(_, _, _)
decode_freezes(reader, len, freezes) ==
    IF len = 0
    THEN Decoded(freezes, reader)
    ELSE LET freeze == decode_freeze(reader)
         IN  IF ~freeze.ok THEN freeze
             ELSE decode_freezes(freeze.rest, len - 1,
                                 Append(freezes, freeze.value))

\* Encodable for YuvTxType
encode_tx_type(tx_type) ==
    IF tx_type.type = "Issue"
    THEN << ISSUE_CONSENSUS_FLAG >> \o encode_proofs(tx_type.output_proofs)
    ELSE IF tx_type.type = "Transfer"
    THEN << TRANSFER_CONSENSUS_FLAG >> \o encode_proofs(tx_type.input_proofs)
         \o encode_proofs(tx_type.output_proofs)
    ELSE << FREEZE_CONSENSUS_FLAG >> \o to_le_bytes(Len(tx_type.freezes), 4)
         \o Flatten([i \in 1 .. Len(tx_type.freezes) |->
                        encode_freeze(tx_type.freezes[i])])

\* Decodable for YuvTxType
decode_tx_type(reader) ==
    LET kind == decode_u8(reader)
    IN  IF ~kind.ok THEN kind
        ELSE IF kind.value = ISSUE_CONSENSUS_FLAG
        THEN LET output_proofs == decode_proofs(kind.rest)
             IN  IF ~output_proofs.ok THEN output_proofs
                 ELSE Decoded([type |-> "Issue",
                               output_proofs |-> output_proofs.value],
                              output_proofs.rest)
        ELSE IF kind.value = TRANSFER_CONSENSUS_FLAG
        THEN LET input_proofs == decode_proofs(kind.rest)
                 output_proofs == decode_proofs(input_proofs.rest)
             IN  IF ~input_proofs.ok THEN input_proofs
                 ELSE IF ~output_proofs.ok THEN output_proofs
                 ELSE Decoded([type |-> "Transfer",
                               input_proofs |-> input_proofs.value,
                               output_proofs |-> output_proofs.value],
                              output_proofs.rest)
        ELSE IF kind.value = FREEZE_CONSENSUS_FLAG
        THEN LET len == decode_u32(kind.rest)
                 freezes == decode_freezes(len.rest, len.value, << >>)
             IN  IF ~len.ok THEN len
                 ELSE IF ~freezes.ok THEN freezes
                 ELSE Decoded([type |-> "FreezeToggle",
                               freezes |-> freezes.value], freezes.rest)
        ELSE DecodeError("Unknown YUV tx type")

\* Encodable for YuvTransaction
encode_yuv_tx(tx) == encode_bitcoin_tx(tx.bitcoin_tx) \o encode_tx_type(tx.tx_type)

\* Decodable for YuvTransaction
decode_yuv_tx(reader) ==
    LET bitcoin_tx == decode_bitcoin_tx(reader)
        tx_type == decode_tx_type(bitcoin_tx.rest)
    IN  IF ~bitcoin_tx.ok THEN bitcoin_tx
        ELSE IF ~tx_type.ok THEN tx_type
        ELSE Decoded([bitcoin_tx |-> bitcoin_tx.value,
                      tx_type |-> tx_type.value], tx_type.rest)

\* Encodable for Inventory
encode_inventory(inv) == << INVENTORY_YTX_FLAG >> \o inv.ytx

\* Decodable for Inventory
decode_inventory(reader) ==
    LET flag == decode_u8(reader)
        txid == decode_txid(flag.rest)
    IN  IF ~flag.ok THEN flag
        ELSE IF flag.value # INVENTORY_YTX_FLAG
        THEN DecodeError("Unknown inventory type")
        ELSE IF ~txid.ok THEN txid
        ELSE Decoded([ytx |-> txid.value], txid.rest)

\* to_bytes that writes vout least significant byte first
toggle_to_bytes_le(freeze) == freeze.txid \o to_le_bytes(freeze.vout, 4)

\* FreezeTxToggle::to_bytes
toggle_to_bytes(freeze) == freeze.txid \o to_be_bytes(freeze.vout, 4)

\* FreezeTxToggle::from_bytes
toggle_from_bytes(bytes) ==
    IF Len(bytes) # FREEZE_ENTRY_SIZE
    THEN DecodeError("InvalidPushBytesSize")
    ELSE Decoded([txid |-> SubSeq(bytes, 1, TX_ID_SIZE),
                  vout |-> from_be_bytes(SubSeq(bytes, TX_ID_SIZE + 1,
                                                Len(bytes)))], << >>)

\* Builder::new().push_opcode(OP_RETURN).push_slice(&slice).into_script()
op_return_script(slice) ==
    << [op |-> "OP_RETURN"], [op |-> "PushBytes", bytes |-> slice] >>

\* FreezeTxToggle::to_script
toggle_to_script(freeze) == op_return_script(toggle_to_bytes(freeze))

\* FreezeTxToggle::from_script
toggle_from_script(script) ==
    IF script = << >> \/ script[1].op # "OP_RETURN"
    THEN DecodeError("NoOpReturn")
    ELSE IF Len(script) # FREEZE_INSTRUCTION_NUMBER - 1
    THEN DecodeError("InvalidInstructionsNumber")
    ELSE IF script[2].op = "PushBytes"
    THEN toggle_from_bytes(script[2].bytes)
    ELSE DecodeError("InvalidInstruction")

\* AnyAnnouncement::to_bytes over an announcement of a kind and its data bytes
announcement_to_bytes(announcement) ==
    ANNOUNCEMENT_PREFIX \o announcement.kind \o announcement.data

\* from_bytes that compares the prefix before it checks the length
announcement_from_bytes_prefix_first(kind, value) ==
    IF SubSeq(value, 1, Min(3, Len(value))) # ANNOUNCEMENT_PREFIX
    THEN DecodeError("InvalidPrefix")
    ELSE IF Len(value) < ANNOUNCEMENT_MINIMAL_LENGTH
    THEN DecodeError("ShortLength")
    ELSE Decoded([kind |-> kind,
                  data |-> SubSeq(value, ANNOUNCEMENT_MINIMAL_LENGTH + 1,
                                  Len(value))], << >>)

\* AnyAnnouncement::from_bytes of the announcement type of `kind`, whose
\* from_announcement_data_bytes keeps the data bytes
announcement_from_bytes(kind, value) ==
    IF Len(value) < ANNOUNCEMENT_MINIMAL_LENGTH
    THEN DecodeError("ShortLength")
    ELSE IF SubSeq(value, 1, 3) # ANNOUNCEMENT_PREFIX
    THEN DecodeError("InvalidPrefix")
    ELSE Decoded([kind |-> kind,
                  data |-> SubSeq(value, ANNOUNCEMENT_MINIMAL_LENGTH + 1,
                                  Len(value))], << >>)

\* AnyAnnouncement::to_script
announcement_to_script(announcement) ==
    op_return_script(announcement_to_bytes(announcement))

\* AnyAnnouncement::from_script: parse_op_return_script hands the pushed
\* bytes of an OP_RETURN script to from_bytes
announcement_from_script(kind, script) ==
    IF script = << >> \/ script[1].op # "OP_RETURN"
    THEN DecodeError("NoOpReturn")
    ELSE IF Len(script) # ANNOUNCEMENT_INSTRUCTION_NUMBER - 1
    THEN DecodeError("InvalidInstructionsNumber")
    ELSE IF script[2].op = "PushBytes"
    THEN announcement_from_bytes(kind, script[2].bytes)
    ELSE DecodeError("InvalidInstruction")

\* the values under encoding
CodecTxids == {[k \in 1 .. TX_ID_SIZE |-> t] : t \in {7, 200}}
CodecVouts == (0 .. MaxVout) \cup {300}
CodecProofs == {1, 2}
CodecProofMaps ==
    UNION {[keys -> CodecProofs] : keys \in SUBSET CodecVouts}
CodecFreezes == [txid : CodecTxids, vout : CodecVouts]
CodecFreezeLists ==
    UNION {[1 .. n -> CodecFreezes] : n \in 0 .. MaxFreezes}
CodecTxTypes ==
    [type : {"Issue"}, output_proofs : CodecProofMaps]
    \cup [type : {"Transfer"}, input_proofs : CodecProofMaps,
          output_proofs : CodecProofMaps]
    \cup [type : {"FreezeToggle"}, freezes : CodecFreezeLists]
CodecYuvTxs == [bitcoin_tx : {9}, tx_type : CodecTxTypes]
CodecInventories == [ytx : CodecTxids]
AnnouncementKinds == {<< 0, 0 >>, << 0, 1 >>, << 0, 2 >>}
CodecAnnouncements ==
    [kind : AnnouncementKinds,
     data : UNION {[1 .. n -> {0, 121}] : n \in 0 .. MaxData}]

\* a value with the conversion it is put through
CodecValues ==
    [of : {"YuvTransaction"}, by : {"consensus"}, v : CodecYuvTxs]
    \cup [of : {"Inventory"}, by : {"consensus"}, v : CodecInventories]
    \cup [of : {"FreezeTxToggle"}, by : {"consensus", "bytes", "script"},
          v : CodecFreezes]
    \cup [of : {"Announcement"}, by : {"bytes", "script"},
          v : CodecAnnouncements]

\* consensus_encode, to_bytes or to_script of the value
encode_value(x) ==
    IF x.of = "YuvTransaction" THEN encode_yuv_tx(x.v)
    ELSE IF x.of = "Inventory" THEN encode_inventory(x.v)
    ELSE IF x.of = "FreezeTxToggle"
    THEN IF x.by = "consensus" THEN encode_freeze(x.v)
         ELSE IF x.by = "bytes" THEN toggle_to_bytes(x.v)
         ELSE toggle_to_script(x.v)
    ELSE IF x.by = "bytes" THEN announcement_to_bytes(x.v)
    ELSE announcement_to_script(x.v)

\* consensus_decode, from_bytes or from_script of the encoding
decode_value(x, encoded) ==
    IF x.of = "YuvTransaction" THEN decode_yuv_tx(encoded)
    ELSE IF x.of = "Inventory" THEN decode_inventory(encoded)
    ELSE IF x.of = "FreezeTxToggle"
    THEN IF x.by = "consensus" THEN decode_freeze(encoded)
         ELSE IF x.by = "bytes" THEN toggle_from_bytes(encoded)
         ELSE toggle_from_script(encoded)
    ELSE IF x.by = "bytes" THEN announcement_from_bytes(x.v.kind, encoded)
    ELSE announcement_from_script(x.v.kind, encoded)

\* the value is encoded
EncodeValue ==
    /\ codec_value # None
    /\ codec_bytes = None
    /\ codec_value[1].of # "bytes"
    /\ codec_bytes' = Some(encode_value(codec_value[1]))
    /\ last_op' = "encode"
    /\ UNCHANGED << store_vars, chroma_info, builder_vars, config_vars, call_vars, now,
                    attach_log, page_writes, calls, prev, doomed, verdict,
                    checked_outpoint, worker_vars, validator_vars, checker_vars,
                    indexer_vars, codec_value, codec_decoded,
                    node_vars, ext_vars >>

\* the encoding is decoded
DecodeValue ==
    /\ codec_bytes # None
    /\ codec_decoded = None
    /\ codec_decoded' = Some(decode_value(codec_value[1], codec_bytes[1]))
    /\ last_op' = "decode"
    /\ UNCHANGED << store_vars, chroma_info, builder_vars, config_vars, call_vars, now,
                    attach_log, page_writes, calls, prev, doomed, verdict,
                    checked_outpoint, worker_vars, validator_vars, checker_vars,
                    indexer_vars, codec_value, codec_bytes,
                    node_vars, ext_vars >>

\* the byte strings handed to from_bytes
ParseAlphabet == {0, 117, 118, 121}
ParseInputs == UNION {[1 .. n -> ParseAlphabet] : n \in 0 .. MaxParseLen}

\* AnyAnnouncement::from_bytes of a byte string from an OP_RETURN output
ParseAnnouncement(kind) ==
    /\ codec_value # None
    /\ codec_value[1].of = "bytes"
    /\ codec_decoded = None
    /\ codec_decoded' = Some(announcement_from_bytes(kind, codec_value[1].v))
    /\ last_op' = "from_bytes"
    /\ UNCHANGED << store_vars, chroma_info, builder_vars, config_vars, call_vars, now,
                    attach_log, page_writes, calls, prev, doomed, verdict,
                    checked_outpoint, worker_vars, validator_vars, checker_vars,
                    indexer_vars, codec_value, codec_bytes,
                    node_vars, ext_vars >>

-----------------------------------------------------------------------------
(* Specifications                                                          *)

\* GraphBuilder::new over an empty store
InitNode(txs, per_page, outdated) ==
    /\ tx_storage = {}
    /\ pages = EmptyMap
    /\ pages_number = None
    /\ frozen = EmptyMap
    /\ chroma_info = [c \in Chromas |-> None]
    /\ inverse_deps = EmptyMap
    /\ deps = EmptyMap
    /\ stored_txs = EmptyMap
    /\ tx_per_page = per_page
    /\ tx_outdated_duration = outdated
    /\ pc = "idle"
    /\ batch = << >>
    /\ queued_txs = {}
    /\ local_queue = {}
    /\ attached_txs = << >>
    /\ now = 0
    /\ known = txs
    /\ attach_log = << >>
    /\ page_writes = << >>
    /\ last_op = "init"
    /\ calls = 0
    /\ prev = None
    /\ doomed = {}
    /\ verdict = "none"
    /\ checked_outpoint = "none"

\* no announcement is in the hands of a checker worker
InitNoWorkers == worker = [w \in {} |-> IdleWorker]

\* the worker pool, every worker waiting for an event
InitWorkers == worker = [w \in Workers |-> IdleWorker]

\* the isolated validator is not run
InitNoValidator ==
    /\ yuv_tx = None
    /\ overflow_checks = FALSE
    /\ check_result = "none"

\* check_txs is not run
InitNoChecker ==
    /\ invalid = {}
    /\ events = << >>
    /\ new_txs = None
    /\ checked_channel = << >>
    /\ incoming = << >>
    /\ checks = 0

\* the block indexer is not run
InitNoIndexer ==
    /\ chain = << >>
    /\ last_indexed = None
    /\ index_log = << >>
    /\ indexer_pc = "off"
    /\ polls = 0
    /\ tick_info = None

\* the node's tasks are not spawned
\* the confirmation indexer is not there
InitNoConfirm ==
    /\ new_tx_rx = << >>
    /\ queue = EmptyMap
    /\ max_confirmation_time = 0
    /\ system_time = 0
    /\ block_txs = << >>
    /\ indexed_blocks = 0
    /\ confirmed_txs = << >>
    /\ confirm_log = None

\* nobody is between a get_frozen_tx and a put_frozen_tx
InitNoRace ==
    /\ builder_freeze = None
    /\ worker_freeze = << >>
    /\ appended = {}

\* the node is not starting up
InitNoStartup ==
    /\ startup_pc = "none"
    /\ blocks_left = 0
    /\ freeze_send = None
    /\ controller_channel = << >>

\* no AttachedTxs message was sent
InitNoReport == reported = {}

InitNoExt == InitNoConfirm /\ InitNoRace /\ InitNoStartup /\ InitNoReport

InitNoNode ==
    /\ cancelation = FALSE
    /\ task_pc = << >>
    /\ tracker_closed = FALSE
    /\ shutdown_timeout = None
    /\ shutdown_pc = "off"
    /\ elapsed = 0

\* nothing is encoded
InitNoCodec ==
    /\ codec_value = None
    /\ codec_bytes = None
    /\ codec_decoded = None

\* the node over the traffic with freeze toggles
Init ==
    /\ InitNode(NodeTxs, 2, 0) /\ InitNoWorkers /\ InitNoValidator
    /\ InitNoChecker /\ InitNoIndexer /\ InitNoCodec /\ InitNoNode /\ InitNoExt

Next ==
    \/ AttachTxsBegin
    \/ \E t \in TxIds : FirstPass(t)
    \/ EndFirstPass
    \/ \E txid \in TxIds : QueueStep(txid)
    \/ QueueRound
    \/ AttachTxsEnd
    \/ HandleCleanup
    \/ Tick
    \/ \E outpoint \in Outpoints : IsOutputFrozen(outpoint)

Spec == Init /\ [][Next]_vars

\* the graph builder of tx-attach's tests: TX_PER_PAGE, with_outdated_duration(0)
TX_PER_PAGE == 100

InitDoc ==
    /\ InitNode(DocTxs, TX_PER_PAGE, 0) /\ InitNoWorkers /\ InitNoValidator
    /\ InitNoChecker /\ InitNoIndexer /\ InitNoCodec /\ InitNoNode /\ InitNoExt

NextDoc ==
    \/ AttachTxsBegin
    \/ \E t \in TxIds : FirstPass(t)
    \/ EndFirstPass
    \/ \E txid \in TxIds : QueueStep(txid)
    \/ QueueRound
    \/ AttachTxsEnd
    \/ HandleCleanup
    \/ Tick

SpecDoc == InitDoc /\ [][NextDoc]_vars

\* the checker worker pool handling chroma and issue announcements
InitSupply ==
    /\ InitNode({}, 2, 0) /\ InitWorkers /\ InitNoValidator
    /\ InitNoChecker /\ InitNoIndexer /\ InitNoCodec /\ InitNoNode /\ InitNoExt

NextSupply ==
    \/ \E w \in Workers : \E a \in ChromaAnnouncements \cup IssueAnnouncements :
           ReceiveAnnouncement(w, a)
    \/ \E w \in Workers : CheckAnnouncement(w)
    \/ \E w \in Workers : ApplyGetChromaInfo(w)
    \/ \E w \in Workers : ApplyPutChromaInfo(w)

SpecSupply == InitSupply /\ [][NextSupply]_vars

\* the isolated validator over a set of transactions, in either build profile
InitValidator(txs) ==
    /\ InitNode({}, 2, 0)
    /\ InitNoWorkers
    /\ yuv_tx \in {Some(tx) : tx \in txs}
    /\ overflow_checks \in BOOLEAN
    /\ check_result = "none"
    /\ InitNoChecker /\ InitNoIndexer /\ InitNoCodec /\ InitNoNode /\ InitNoExt

NextValidator == CheckTransaction

\* check_transaction over the transfers
InitTransfer == InitValidator(Transfers(MaxInputProofs, MaxOutputProofs))
SpecTransfer == InitTransfer /\ [][NextValidator]_vars

\* check_transaction over the issues
InitIssue == InitValidator(Issues(MaxIssueProofs))
SpecIssue == InitIssue /\ [][NextValidator]_vars

\* check_transaction over the Issues given output by output
InitIssueOutputs == InitValidator(OutputIssues)
SpecIssueOutputs == InitIssueOutputs /\ [][NextValidator]_vars

\* check_transaction over the transfers with Bulletproof proofs
InitBulletproof == InitValidator(BulletproofTransfers)
SpecBulletproof == InitBulletproof /\ [][NextValidator]_vars

\* a checker worker and the GraphBuilder it feeds, over a traffic and a set
\* of build profiles
InitChecker(txs, profiles) ==
    /\ InitNode(txs, 2, 0)
    /\ InitNoWorkers
    /\ yuv_tx = None
    /\ overflow_checks \in profiles
    /\ check_result = "none"
    /\ InitNoChecker /\ InitNoIndexer /\ InitNoCodec /\ InitNoNode /\ InitNoExt

\* the traffic of an issue, a transfer of its output and a freeze toggle.
\* No transaction of the checker's traffic has a pending grandchild: the
\* queue loop of attach_txs ends after one round
InitCheck == InitChecker(ParentCheckTxs, {FALSE})

NextCheck ==
    \/ \E txs \in CheckBatches : \E peer_addr \in {None} \cup {Some(p) : p \in Peers} :
           CheckTxs(txs, peer_addr, Answered(txs))
    \/ ReceiveCheckedTxs
    \/ FirstPassChecked
    \/ EndFirstPassChecked
    \/ \E txid \in TxIds : QueueStep(txid)
    \/ AttachTxsEnd

SpecCheck == InitCheck /\ [][NextCheck]_vars

\* the attacher with pages of one transaction and more, over the part of
\* NodeTxs that hangs below is2: the calls of attach_txs alone
PagesTxs == {"is2", "fz2", "tr1", "tr2"}

InitPages ==
    /\ \E per_page \in 1 .. MaxPerPage : InitNode(PagesTxs, per_page, 0)
    /\ InitNoWorkers /\ InitNoValidator
    /\ InitNoChecker /\ InitNoIndexer /\ InitNoCodec /\ InitNoNode /\ InitNoExt

NextPages ==
    \/ AttachTxsBegin
    \/ \E t \in TxIds : FirstPass(t)
    \/ EndFirstPass
    \/ \E txid \in TxIds : QueueStep(txid)
    \/ QueueRound
    \/ AttachTxsEnd

SpecPages == InitPages /\ [][NextPages]_vars

\* the same calls over a storage whose calls can fail
NextStorageError ==
    \/ NextPages
    \/ AttachTxsStorageError

SpecStorageError == InitPages /\ [][NextStorageError]_vars

\* the attacher over a storage whose calls can fail, on the transactions
\* below is2: the states of deps, inverse_deps and stored_txs a call of
\* attach_txs can find
InitQueue ==
    /\ InitNode(PagesTxs, 2, 0) /\ InitNoWorkers /\ InitNoValidator
    /\ InitNoChecker /\ InitNoIndexer /\ InitNoCodec /\ InitNoNode /\ InitNoExt

NextQueue ==
    \/ NextPages
    \/ AttachTxsStorageError

\* the queue loop of attach_txs, one step
QueueLoop ==
    \/ \E txid \in TxIds : QueueStep(txid)
    \/ QueueRound
    \/ AttachTxsEnd

SpecQueue == InitQueue /\ [][NextQueue]_vars

\* the graph builder's task is scheduled while its loop has a step to take
SpecQueueLive == SpecQueue /\ WF_vars(QueueLoop)

\* the same with the cleanup timer, which drops outdated pending transactions
NextQueueCleanup ==
    \/ NextQueue
    \/ HandleCleanup
    \/ Tick

SpecQueueCleanupLive == InitQueue /\ [][NextQueueCleanup]_vars /\ WF_vars(QueueLoop)

\* the traffic of an issue, a transfer of its output and a freeze toggle of
\* that output signed by the owner of another chroma
InitCheckForeign == InitChecker(ForeignCheckTxs, {FALSE})

SpecCheckForeign == InitCheckForeign /\ [][NextCheck]_vars

\* the traffic of an issue and a transfer of its output, the calls of the
\* Bitcoin RPC answering, answering with another transaction, or failing
RpcCheckTxs == {"ci", "ct"}
InitCheckRpc == InitChecker(RpcCheckTxs, {FALSE})

NextCheckRpc ==
    \/ \E txs \in CheckBatches : \E peer_addr \in {None} \cup {Some(p) : p \in Peers} :
           \E got_txs \in [Range(txs) -> RpcAnswers] : CheckTxs(txs, peer_addr, got_txs)
    \/ ReceiveCheckedTxs
    \/ FirstPassChecked
    \/ EndFirstPassChecked
    \/ \E txid \in TxIds : QueueStep(txid)
    \/ AttachTxsEnd

SpecCheckRpc == InitCheckRpc /\ [][NextCheckRpc]_vars

\* the traffic with transactions the isolated validator refuses, in either
\* build profile
InitCheckInvalid == InitChecker(InvalidCheckTxs, BOOLEAN)
SpecCheckInvalid == InitCheckInvalid /\ [][NextCheck]_vars

\* the node after check_txs and attach_txs of [ci, cf], the output o1 of ci
\* frozen by cf; the traffic is the transfer of o1 and a second freeze toggle
InitCheckFrozen ==
    /\ tx_storage = {"ci", "cf"}
    /\ pages = [n \in {0} |-> << "ci" >>]
    /\ pages_number = None
    /\ frozen = [o \in {"o1"} |-> << "cf" >>]
    /\ chroma_info = [c \in Chromas |-> None]
    /\ inverse_deps = EmptyMap
    /\ deps = EmptyMap
    /\ stored_txs = EmptyMap
    /\ tx_per_page = 2
    /\ tx_outdated_duration = 0
    /\ pc = "idle"
    /\ batch = << "cf", "ci" >>
    /\ queued_txs = {}
    /\ local_queue = {}
    /\ attached_txs = << "ci" >>
    /\ now = 0
    /\ known = FreezeCheckTxs
    /\ attach_log = << "cf", "ci" >>
    /\ page_writes = << [num |-> 0, page |-> << "ci" >>] >>
    /\ last_op = "attach_txs"
    /\ calls = 1
    /\ prev = None
    /\ doomed = {}
    /\ verdict = "none"
    /\ checked_outpoint = "none"
    /\ InitNoWorkers /\ InitNoValidator
    /\ InitNoChecker /\ InitNoIndexer /\ InitNoCodec /\ InitNoNode /\ InitNoExt

NextCheckFrozen ==
    \/ \E txs \in CheckBatches : \E peer_addr \in {None} \cup {Some(p) : p \in Peers} :
           CheckTxs(txs, peer_addr, Answered(txs))
    \/ ReceiveCheckedTxs
    \/ FirstPassChecked
    \/ EndFirstPassChecked
    \/ AttachTxsEnd

SpecCheckFrozen == InitCheckFrozen /\ [][NextCheckFrozen]_vars

\* the block indexer over a Bitcoin node whose chain grows and reorganises
InitIndexer ==
    /\ InitNode({}, 2, 0)
    /\ InitNoWorkers
    /\ InitNoValidator
    /\ InitNoChecker
    /\ InitNoCodec /\ InitNoNode /\ InitNoExt
    /\ chain = << Block(0, 0) >>
    /\ last_indexed = None
    /\ index_log = << >>
    /\ indexer_pc = "off"
    /\ polls = 0
    /\ tick_info = None

NextIndexer ==
    \/ \E br \in Branches : MineBlock(br)
    \/ ReorgTip
    \/ \E params \in DefaultIndexingParams, fail \in Failures :
           IndexerInit(params, GoodBlockLoader, fail)
    \/ \E fail \in Failures : RunTick(fail)
    \/ RestartIndexer

SpecIndexer == InitIndexer /\ [][NextIndexer]_vars

\* the indexer with any indexing parameters and any block loader; a failed
\* init is tried again
RetryInit ==
    /\ indexer_pc = "failed"
    /\ polls < MaxPolls
    /\ indexer_pc' = "off"
    /\ last_op' = "restart"
    /\ UNCHANGED << store_vars, chroma_info, builder_vars, config_vars, call_vars, now,
                    attach_log, page_writes, calls, prev, doomed, verdict,
                    checked_outpoint, worker_vars, validator_vars, checker_vars,
                    chain, last_indexed, index_log, polls, tick_info,
                    codec_vars, node_vars, ext_vars >>

\* init with any indexing parameters, on a chain without forks
NextIndexerStart ==
    \/ MineBlock(0)
    \/ \E params \in IndexingParams(GenesisHeights, 0 .. MaxStepBack),
          fail \in FirstFailures :
           IndexerInit(params, GoodBlockLoader, fail)
    \/ RestartIndexer
    \/ RetryInit

SpecIndexerStart == InitIndexer /\ [][NextIndexerStart]_vars

\* init with any block loader, on a chain without forks
NextIndexerLoad ==
    \/ MineBlock(0)
    \/ \E loader \in BlockLoaders, fail \in FirstFailures :
           IndexerInit(UnsetIndexingParams, loader, fail)
    \/ RestartIndexer
    \/ RetryInit

SpecIndexerLoad == InitIndexer /\ [][NextIndexerLoad]_vars

\* a value is encoded and decoded again
InitCodecOver(values) ==
    /\ InitNode({}, 2, 0)
    /\ InitNoWorkers
    /\ InitNoValidator
    /\ InitNoChecker
    /\ InitNoIndexer
    /\ InitNoNode /\ InitNoExt
    /\ codec_value \in {Some(x) : x \in values}
    /\ codec_bytes = None
    /\ codec_decoded = None

InitCodec == InitCodecOver(CodecValues)

NextCodec ==
    \/ EncodeValue
    \/ DecodeValue

SpecCodec == InitCodec /\ [][NextCodec]_vars

\* a byte string is parsed as an announcement
InitParse == InitCodecOver([of : {"bytes"}, by : {"bytes"}, v : ParseInputs])

NextParse == \E kind \in AnnouncementKinds : ParseAnnouncement(kind)

SpecParse == InitParse /\ [][NextParse]_vars

-----------------------------------------------------------------------------
(* The confirmation indexer                                                *)
(* (crates/indexers/src/subindexer/confirmation.rs)                        *)

\* the transactions the controller sends for confirmation
ConfirmTxs == {"ci", "ct"}

\* the ConfirmBatchTx events: transactions of the traffic, none twice
ConfirmBatches ==
    {txs \in UNION {[1 .. k -> ConfirmTxs] : k \in 1 .. MaxConfirmBatch} :
        \A i, j \in 1 .. Len(txs) : i # j => txs[i] # txs[j]}

\* get_raw_transaction_info(txid).confirmations: the depth of the block of
\* the node's chain that holds the transaction
confirmations(txid) ==
    LET holders == {i \in 1 .. Len(block_txs) : txid \in block_txs[i]}
    IN  IF holders = {} THEN None
        ELSE Some(Len(block_txs) - (CHOOSE i \in holders : TRUE) + 1)

\* new_confirmed_tx, on the record of a find_waiting_txs call
new_confirmed_tx(st, tx) ==
    [st EXCEPT !.sent = Append(@, [txs |-> << tx >>, sender |-> None])]

\* handle_confirm_tx; rpc_fail is the number of the get_raw_transaction_info
\* call that fails, 0 when none does
handle_confirm_tx(st, tx, rpc_fail) ==
    LET st1 == [st EXCEPT !.rpc_calls = @ + 1]
        got_tx == confirmations(tx)
    IN  IF st1.rpc_calls = rpc_fail THEN [st1 EXCEPT !.err = TRUE]
        ELSE IF got_tx # None /\ got_tx[1] >= MIN_CONFIRMATIONS
        THEN new_confirmed_tx(st1, tx)
        ELSE [st1 EXCEPT !.queue = Put(@, tx, system_time)]

\* handle_confirm_txs
RECURSIVE handle_confirm_txs(_, _, _)
handle_confirm_txs(st, yuv_txs, rpc_fail) ==
    IF yuv_txs = << >> \/ st.err THEN st
    ELSE handle_confirm_txs(handle_confirm_tx(st, Head(yuv_txs), rpc_fail),
                            Tail(yuv_txs), rpc_fail)

\* find_waiting_txs: the loop that receives the new_events_num waiting events
RECURSIVE receive_events(_, _, _)
receive_events(st, new_events_num, rpc_fail) ==
    IF new_events_num = 0 \/ st.err THEN st
    ELSE LET new_event == Head(st.new_tx_rx)
             st1 == [st EXCEPT !.new_tx_rx = Tail(@),
                               !.received = @ \cup Range(new_event)]
         IN  receive_events(handle_confirm_txs(st1, new_event, rpc_fail),
                            new_events_num - 1, rpc_fail)

\* find_waiting_txs: the loop over block.tx
RECURSIVE confirm_block_txs(_, _)
confirm_block_txs(st, txs) ==
    IF txs = << >> THEN st
    ELSE IF Has(st.queue, Head(txs))
    THEN confirm_block_txs(
             new_confirmed_tx([st EXCEPT !.queue = Remove(@, Head(txs))], Head(txs)),
             Tail(txs))
    ELSE confirm_block_txs(st, Tail(txs))

\* find_waiting_txs: the loop that removes the transactions waiting too long
remove_outdated(st) ==
    LET outdated == {txid \in DOMAIN st.queue :
                        system_time - st.queue[txid] > max_confirmation_time}
    IN  [st EXCEPT !.queue = [txid \in DOMAIN st.queue \ outdated |-> st.queue[txid]],
                   !.expired = @ \cup outdated]

\* find_waiting_txs that removes the outdated transactions before it looks
\* at the block
find_waiting_txs_outdated_first(st, block, rpc_fail) ==
    LET received == receive_events(st, Len(st.new_tx_rx), rpc_fail)
    IN  IF received.err \/ received.queue = EmptyMap THEN received
        ELSE confirm_block_txs(remove_outdated(received), SortByTxid(block))

\* find_waiting_txs
find_waiting_txs(st, block, rpc_fail) ==
    LET received == receive_events(st, Len(st.new_tx_rx), rpc_fail)
    IN  IF received.err \/ received.queue = EmptyMap THEN received
        ELSE remove_outdated(confirm_block_txs(received, SortByTxid(block)))

\* the controller sends ConfirmationIndexerMessage::ConfirmBatchTx
ConfirmBatchTx(yuv_txs) ==
    /\ confirm_log[1].events < MaxConfirmEvents
    /\ new_tx_rx' = Append(new_tx_rx, yuv_txs)
    /\ confirm_log' = Some([confirm_log[1] EXCEPT
                               !.events = @ + 1,
                               !.submitted = [t \in ConfirmTxs |->
                                   @[t] + IF t \in Range(yuv_txs) THEN 1 ELSE 0],
                               !.op = "send"])
    /\ UNCHANGED << queue, max_confirmation_time, system_time, block_txs,
                    indexed_blocks, confirmed_txs >>
    /\ UNCHANGED << store_vars, builder_vars, config_vars, call_vars, worker_vars,
                    validator_vars, checker_vars, indexer_vars, codec_vars,
                    node_vars, race_vars, startup_vars, report_vars, chroma_info, now, attach_log,
                    page_writes, last_op, calls, prev, doomed, verdict,
                    checked_outpoint >>

\* the Bitcoin network mines a block with some of the transactions
MineTxs(txs) ==
    /\ Len(block_txs) < MaxBlocks
    /\ \A i \in 1 .. Len(block_txs) : block_txs[i] \cap txs = {}
    /\ block_txs' = Append(block_txs, txs)
    /\ confirm_log' = Some([confirm_log[1] EXCEPT !.op = "mine"])
    /\ UNCHANGED << new_tx_rx, queue, max_confirmation_time, system_time,
                    indexed_blocks, confirmed_txs >>
    /\ UNCHANGED << store_vars, builder_vars, config_vars, call_vars, worker_vars,
                    validator_vars, checker_vars, indexer_vars, codec_vars,
                    node_vars, race_vars, startup_vars, report_vars, chroma_info, now, attach_log,
                    page_writes, last_op, calls, prev, doomed, verdict,
                    checked_outpoint >>

\* the system clock advances
SystemTimePasses ==
    /\ system_time < MaxSystemTime
    /\ system_time' = system_time + 1
    /\ confirm_log' = Some([confirm_log[1] EXCEPT !.op = "clock"])
    /\ UNCHANGED << new_tx_rx, queue, max_confirmation_time, block_txs,
                    indexed_blocks, confirmed_txs >>
    /\ UNCHANGED << store_vars, builder_vars, config_vars, call_vars, worker_vars,
                    validator_vars, checker_vars, indexer_vars, codec_vars,
                    node_vars, race_vars, startup_vars, report_vars, chroma_info, now, attach_log,
                    page_writes, last_op, calls, prev, doomed, verdict,
                    checked_outpoint >>

\* Subindexer::index: the indexer hands the confirmation indexer the block
\* at the height (index_block); handle_new_blocks starts from the last
\* indexed block, so that block is indexed again
FindWaitingTxs(height, rpc_fail) ==
    /\ height \in {indexed_blocks, indexed_blocks + 1} \cap (1 .. Len(block_txs))
    /\ LET st == find_waiting_txs(
                    [new_tx_rx |-> new_tx_rx, queue |-> queue, sent |-> << >>,
                     rpc_calls |-> 0, err |-> FALSE,
                     received |-> {}, expired |-> {}],
                    block_txs[height], rpc_fail)
       IN  /\ rpc_fail <= st.rpc_calls
           /\ new_tx_rx' = st.new_tx_rx
           /\ queue' = st.queue
           /\ confirmed_txs' = confirmed_txs \o st.sent
           /\ indexed_blocks' = IF st.err THEN indexed_blocks ELSE height
           /\ confirm_log' = Some([confirm_log[1] EXCEPT
                                      !.received = @ \cup st.received,
                                      !.expired = @ \cup st.expired,
                                      !.op = "index", !.block = block_txs[height],
                                      !.ok = ~st.err, !.sent = st.sent,
                                      !.waiting = queue])
    /\ UNCHANGED << max_confirmation_time, system_time, block_txs >>
    /\ UNCHANGED << store_vars, builder_vars, config_vars, call_vars, worker_vars,
                    validator_vars, checker_vars, indexer_vars, codec_vars,
                    node_vars, race_vars, startup_vars, report_vars, chroma_info, now, attach_log,
                    page_writes, last_op, calls, prev, doomed, verdict,
                    checked_outpoint >>

\* the confirmation indexer of a node that has indexed no block yet
InitConfirm ==
    /\ InitNode({}, 2, 0)
    /\ InitNoWorkers /\ InitNoValidator
    /\ InitNoChecker /\ InitNoIndexer /\ InitNoCodec /\ InitNoNode /\ InitNoRace
    /\ InitNoStartup /\ InitNoReport
    /\ new_tx_rx = << >>
    /\ queue = EmptyMap
    /\ max_confirmation_time \in 0 .. MaxConfirmationTime
    /\ system_time = 0
    /\ block_txs = << >>
    /\ indexed_blocks = 0
    /\ confirmed_txs = << >>
    /\ confirm_log = Some([events |-> 0, submitted |-> [t \in ConfirmTxs |-> 0],
                           received |-> {}, expired |-> {}, op |-> "init",
                           block |-> {}, ok |-> TRUE, sent |-> << >>,
                           waiting |-> EmptyMap])

\* the node's RPC answers every call
NextConfirm ==
    \/ \E yuv_txs \in ConfirmBatches : ConfirmBatchTx(yuv_txs)
    \/ \E txs \in SUBSET ConfirmTxs : MineTxs(txs)
    \/ SystemTimePasses
    \/ \E height \in 1 .. MaxBlocks : FindWaitingTxs(height, 0)

SpecConfirm == InitConfirm /\ [][NextConfirm]_vars

\* calls of get_raw_transaction_info may fail
NextConfirmRpc ==
    \/ \E yuv_txs \in ConfirmBatches : ConfirmBatchTx(yuv_txs)
    \/ \E txs \in SUBSET ConfirmTxs : MineTxs(txs)
    \/ SystemTimePasses
    \/ \E height \in 1 .. MaxBlocks, rpc_fail \in 0 .. MaxConfirmBatch * MaxConfirmEvents :
           FindWaitingTxs(height, rpc_fail)

SpecConfirmRpc == InitConfirm /\ [][NextConfirmRpc]_vars

-----------------------------------------------------------------------------
(* The frozen entries under concurrent tasks: the graph builder's          *)
(* set_tx_attached (crates/tx-attach/src/lib.rs) and the workers'          *)
(* is_output_frozen (crates/tx-check/src/worker.rs), one storage call at   *)
(* a time.  The storage handles are clones of one store without locks.     *)

\* the freeze toggles the graph builder attaches: each toggles o1 and is
\* signed by the owner of its chroma
RaceTxs == {"cf", "cg", "fz1"}

\* set_tx_attached of a freeze toggle: tx_storage.put_yuv_tx
BuilderPutYuvTx(t) ==
    /\ builder_freeze = None
    /\ t \notin tx_storage
    /\ tx_storage' = tx_storage \cup {t}
    /\ builder_freeze' = Some([txid |-> t, pc |-> "get", value |-> << >>])
    /\ UNCHANGED << frozen, worker_freeze, appended >>
    /\ UNCHANGED << pages, pages_number, builder_vars, config_vars, call_vars,
                    worker_vars, validator_vars, checker_vars, indexer_vars,
                    codec_vars, node_vars, confirm_vars, startup_vars, report_vars, chroma_info, now,
                    attach_log, page_writes, last_op, calls, prev, doomed, verdict,
                    checked_outpoint >>

\* update_freezes: state_storage.get_frozen_tx(outpoint).unwrap_or_default()
BuilderGetFrozenTx ==
    /\ builder_freeze # None
    /\ builder_freeze[1].pc = "get"
    /\ LET outpoint == Head(Freezes(builder_freeze[1].txid))
       IN  builder_freeze' = Some([builder_freeze[1] EXCEPT
                                      !.pc = "put",
                                      !.value = Get(frozen, outpoint, << >>)])
    /\ UNCHANGED << tx_storage, frozen, worker_freeze, appended >>
    /\ UNCHANGED << pages, pages_number, builder_vars, config_vars, call_vars,
                    worker_vars, validator_vars, checker_vars, indexer_vars,
                    codec_vars, node_vars, confirm_vars, startup_vars, report_vars, chroma_info, now,
                    attach_log, page_writes, last_op, calls, prev, doomed, verdict,
                    checked_outpoint >>

\* update_freezes: value.tx_ids.push(txid) and state_storage.put_frozen_tx
BuilderPutFrozenTx ==
    /\ builder_freeze # None
    /\ builder_freeze[1].pc = "put"
    /\ LET outpoint == Head(Freezes(builder_freeze[1].txid))
       IN  frozen' = Put(frozen, outpoint,
                         Append(builder_freeze[1].value, builder_freeze[1].txid))
    /\ appended' = appended \cup {builder_freeze[1].txid}
    /\ builder_freeze' = None
    /\ UNCHANGED << tx_storage, worker_freeze >>
    /\ UNCHANGED << pages, pages_number, builder_vars, config_vars, call_vars,
                    worker_vars, validator_vars, checker_vars, indexer_vars,
                    codec_vars, node_vars, confirm_vars, startup_vars, report_vars, chroma_info, now,
                    attach_log, page_writes, last_op, calls, prev, doomed, verdict,
                    checked_outpoint >>

\* is_output_frozen: state_storage.get_frozen_tx(outpoint) finds an entry
WorkerGetFrozenTx(w, outpoint) ==
    /\ worker_freeze[w] = None
    /\ ~NotFreezable(PixelChroma(outpoint))
    /\ Has(frozen, outpoint)
    /\ worker_freeze' = [worker_freeze EXCEPT
                             ![w] = Some([outpoint |-> outpoint,
                                          freeze_entry |-> frozen[outpoint]])]
    /\ UNCHANGED << tx_storage, frozen, builder_freeze, appended >>
    /\ UNCHANGED << pages, pages_number, builder_vars, config_vars, call_vars,
                    worker_vars, validator_vars, checker_vars, indexer_vars,
                    codec_vars, node_vars, confirm_vars, startup_vars, report_vars, chroma_info, now,
                    attach_log, page_writes, last_op, calls, prev, doomed, verdict,
                    checked_outpoint >>

\* is_output_frozen: the loop over freeze_entry.tx_ids and
\* state_storage.put_frozen_tx(outpoint, checked_freezes)
WorkerPutFrozenTx(w) ==
    /\ worker_freeze[w] # None
    /\ LET outpoint == worker_freeze[w][1].outpoint
           checked == check_freezes(
                          [tx_storage |-> tx_storage, checked_freezes |-> << >>,
                           err |-> FALSE],
                          worker_freeze[w][1].freeze_entry, PixelChroma(outpoint))
       IN  /\ tx_storage' = checked.tx_storage
           /\ frozen' = IF checked.err THEN frozen
                        ELSE Put(frozen, outpoint, checked.checked_freezes)
    /\ worker_freeze' = [worker_freeze EXCEPT ![w] = None]
    /\ UNCHANGED << builder_freeze, appended >>
    /\ UNCHANGED << pages, pages_number, builder_vars, config_vars, call_vars,
                    worker_vars, validator_vars, checker_vars, indexer_vars,
                    codec_vars, node_vars, confirm_vars, startup_vars, report_vars, chroma_info, now,
                    attach_log, page_writes, last_op, calls, prev, doomed, verdict,
                    checked_outpoint >>

\* the graph builder and the workers on a store without frozen entries
InitRace ==
    /\ InitNode(RaceTxs, 2, 0)
    /\ InitNoWorkers /\ InitNoValidator
    /\ InitNoChecker /\ InitNoIndexer /\ InitNoCodec /\ InitNoNode
    /\ InitNoConfirm /\ InitNoStartup /\ InitNoReport
    /\ builder_freeze = None
    /\ worker_freeze = [w \in Workers |-> None]
    /\ appended = {}

NextRace ==
    \/ \E t \in RaceTxs : BuilderPutYuvTx(t)
    \/ BuilderGetFrozenTx
    \/ BuilderPutFrozenTx
    \/ \E w \in Workers, outpoint \in Outpoints : WorkerGetFrozenTx(w, outpoint)
    \/ \E w \in Workers : WorkerPutFrozenTx(w)

SpecRace == InitRace /\ [][NextRace]_vars

-----------------------------------------------------------------------------
(* Node::run up to spawn_controller (apps/node/src/cli/node.rs) with the   *)
(* FreezesIndexer (crates/indexers/src/subindexer/freeze.rs) as the        *)
(* sub-indexer that sends on the ControllerMessage channel.  The event bus *)
(* is a bounded channel whose send waits while the channel is full.        *)

\* the transactions with freeze toggles a block can hold
FreezeBlockTxs == {"cf", "cg", "fz1"}

\* EventBus::send on the bounded channel: room for one more message
has_capacity(channel) == Len(channel) < ChannelSize

\* init_blocks_handle, index_block, FreezesIndexer::find_freezes up to the
\* send: a block without freeze toggles is indexed at once
InitIndexBlock(block_tx) ==
    /\ startup_pc = "init"
    /\ freeze_send = None
    /\ blocks_left > 0
    /\ LET txs == SetToSeq(block_tx \cap FreezeBlockTxs)
       IN  IF txs = << >>
           THEN freeze_send' = None /\ blocks_left' = blocks_left - 1
           ELSE freeze_send' = Some(txs) /\ blocks_left' = blocks_left
    /\ UNCHANGED << startup_pc, controller_channel >>
    /\ UNCHANGED << store_vars, builder_vars, config_vars, call_vars,
                    worker_vars, validator_vars, checker_vars, indexer_vars,
                    codec_vars, node_vars, confirm_vars, race_vars, report_vars, chroma_info,
                    now, attach_log, page_writes, last_op, calls, prev, doomed,
                    verdict, checked_outpoint >>

\* event_bus.send(ControllerMessage::NewYuxTxs(txs)).await returns and the
\* rest of index_block runs
EventBusSend ==
    /\ startup_pc = "init"
    /\ freeze_send # None
    /\ has_capacity(controller_channel)
    /\ controller_channel' = Append(controller_channel, freeze_send[1])
    /\ freeze_send' = None
    /\ blocks_left' = blocks_left - 1
    /\ UNCHANGED startup_pc
    /\ UNCHANGED << store_vars, builder_vars, config_vars, call_vars,
                    worker_vars, validator_vars, checker_vars, indexer_vars,
                    codec_vars, node_vars, confirm_vars, race_vars, report_vars, chroma_info,
                    now, attach_log, page_writes, last_op, calls, prev, doomed,
                    verdict, checked_outpoint >>

\* IndexBlocksEvent::FinishLoading: init returns, Node::run goes on to
\* spawn_p2p and spawn_controller
SpawnController ==
    /\ startup_pc = "init"
    /\ freeze_send = None
    /\ blocks_left = 0
    /\ startup_pc' = "spawned"
    /\ UNCHANGED << blocks_left, freeze_send, controller_channel >>
    /\ UNCHANGED << store_vars, builder_vars, config_vars, call_vars,
                    worker_vars, validator_vars, checker_vars, indexer_vars,
                    codec_vars, node_vars, confirm_vars, race_vars, report_vars, chroma_info,
                    now, attach_log, page_writes, last_op, calls, prev, doomed,
                    verdict, checked_outpoint >>

\* Controller::run receives a message; only the spawned controller does
ControllerRecv ==
    /\ startup_pc = "spawned"
    /\ controller_channel # << >>
    /\ controller_channel' = Tail(controller_channel)
    /\ UNCHANGED << startup_pc, blocks_left, freeze_send >>
    /\ UNCHANGED << store_vars, builder_vars, config_vars, call_vars,
                    worker_vars, validator_vars, checker_vars, indexer_vars,
                    codec_vars, node_vars, confirm_vars, race_vars, report_vars, chroma_info,
                    now, attach_log, page_writes, last_op, calls, prev, doomed,
                    verdict, checked_outpoint >>

\* Node::run has spawned the graph builder and the workers and awaits
\* init; the chain has any number of blocks from the starting height on
InitStartup ==
    /\ InitNode({}, 2, 0)
    /\ InitNoWorkers /\ InitNoValidator
    /\ InitNoChecker /\ InitNoIndexer /\ InitNoCodec /\ InitNoNode
    /\ InitNoConfirm /\ InitNoRace /\ InitNoReport
    /\ startup_pc = "init"
    /\ blocks_left \in 0 .. MaxInitBlocks
    /\ freeze_send = None
    /\ controller_channel = << >>

NextStartup ==
    \/ \E block_tx \in SUBSET FreezeBlockTxs : InitIndexBlock(block_tx)
    \/ EventBusSend
    \/ SpawnController
    \/ ControllerRecv

SpecStartup == InitStartup /\ [][NextStartup]_vars

\* every task that can run does run: the block loader delivers all blocks
\* and no task is starved
SpecStartupLive == SpecStartup /\ WF_vars(NextStartup)

-----------------------------------------------------------------------------
(* The node's tasks and Node::shutdown                                     *)

\* the tasks Node::run spawns on the task tracker with the shared token:
\* the graph builder, the checker workers (child tokens of the pool's
\* token) and the indexer's run loop
Tasks ==
    {<< "graph_builder", 0 >>, << "indexer", 0 >>}
        \cup {<< "tx_checker", w >> : w \in Workers}

\* the configured shutdown timeouts
ShutdownTimeouts == {None} \cup {Some(secs) : secs \in 0..MaxTimeout}

\* the shutdown timeout in force
Timeout == UnwrapOr(shutdown_timeout, DEFAULT_SHUTDOWN_TIMEOUT_SECS)

\* the cancellation branch of a task's select! is ready
select_cancelled(task) == cancelation

\* select! takes the branch of the primary source (an event, a timer tick):
\* the branch chosen among the ready ones is random, so this can happen
\* after the token is cancelled too
TaskBegin(task) ==
    /\ task_pc[task] = "select"
    /\ task_pc' = [task_pc EXCEPT ![task] = "handling"]
    /\ UNCHANGED << store_vars, builder_vars, config_vars, call_vars, worker_vars,
                    validator_vars, checker_vars, indexer_vars, codec_vars,
                    chroma_info, now, attach_log, page_writes, last_op, calls,
                    prev, doomed, verdict, checked_outpoint,
                    cancelation, tracker_closed, shutdown_timeout, shutdown_pc,
                    elapsed, ext_vars >>

\* the iteration completes and the loop selects again
TaskEnd(task) ==
    /\ task_pc[task] = "handling"
    /\ task_pc' = [task_pc EXCEPT ![task] = "select"]
    /\ UNCHANGED << store_vars, builder_vars, config_vars, call_vars, worker_vars,
                    validator_vars, checker_vars, indexer_vars, codec_vars,
                    chroma_info, now, attach_log, page_writes, last_op, calls,
                    prev, doomed, verdict, checked_outpoint,
                    cancelation, tracker_closed, shutdown_timeout, shutdown_pc,
                    elapsed, ext_vars >>

\* the iteration awaits something that never completes
TaskHang(task) ==
    /\ task_pc[task] = "handling"
    /\ task_pc' = [task_pc EXCEPT ![task] = "stuck"]
    /\ UNCHANGED << store_vars, builder_vars, config_vars, call_vars, worker_vars,
                    validator_vars, checker_vars, indexer_vars, codec_vars,
                    chroma_info, now, attach_log, page_writes, last_op, calls,
                    prev, doomed, verdict, checked_outpoint,
                    cancelation, tracker_closed, shutdown_timeout, shutdown_pc,
                    elapsed, ext_vars >>

\* select! takes the cancellation branch and the task returns
TaskReturn(task) ==
    /\ task_pc[task] = "select"
    /\ select_cancelled(task)
    /\ task_pc' = [task_pc EXCEPT ![task] = "returned"]
    /\ UNCHANGED << store_vars, builder_vars, config_vars, call_vars, worker_vars,
                    validator_vars, checker_vars, indexer_vars, codec_vars,
                    chroma_info, now, attach_log, page_writes, last_op, calls,
                    prev, doomed, verdict, checked_outpoint,
                    cancelation, tracker_closed, shutdown_timeout, shutdown_pc,
                    elapsed, ext_vars >>

\* Node::shutdown cancels the token and starts to wait
Shutdown ==
    /\ shutdown_pc = "off"
    /\ cancelation' = TRUE
    /\ shutdown_pc' = "waiting"
    /\ elapsed' = 0
    /\ UNCHANGED << store_vars, builder_vars, config_vars, call_vars, worker_vars,
                    validator_vars, checker_vars, indexer_vars, codec_vars,
                    chroma_info, now, attach_log, page_writes, last_op, calls,
                    prev, doomed, verdict, checked_outpoint,
                    task_pc, tracker_closed, shutdown_timeout, ext_vars >>

\* a second passes while shutdown waits; sleep(timeout) is ready at Timeout
ClockTick ==
    /\ shutdown_pc = "waiting"
    /\ elapsed < Timeout
    /\ elapsed' = elapsed + 1
    /\ UNCHANGED << store_vars, builder_vars, config_vars, call_vars, worker_vars,
                    validator_vars, checker_vars, indexer_vars, codec_vars,
                    chroma_info, now, attach_log, page_writes, last_op, calls,
                    prev, doomed, verdict, checked_outpoint,
                    cancelation, task_pc, tracker_closed, shutdown_timeout,
                    shutdown_pc, ext_vars >>

\* task_tracker.wait(): the tracker is closed and every task has returned
tracker_wait_ready == tracker_closed /\ \A task \in Tasks : task_pc[task] = "returned"

\* shutdown without the sleep branch
sleep_ready_never == FALSE

\* sleep(Duration::from_secs(timeout)) has elapsed
sleep_ready == elapsed >= Timeout

\* the select! of Node::shutdown: all tasks finished
ShutdownDrained ==
    /\ shutdown_pc = "waiting"
    /\ tracker_wait_ready
    /\ shutdown_pc' = "returned"
    /\ UNCHANGED << store_vars, builder_vars, config_vars, call_vars, worker_vars,
                    validator_vars, checker_vars, indexer_vars, codec_vars,
                    chroma_info, now, attach_log, page_writes, last_op, calls,
                    prev, doomed, verdict, checked_outpoint,
                    cancelation, task_pc, tracker_closed, shutdown_timeout,
                    elapsed, ext_vars >>

\* the select! of Node::shutdown: the timeout is reached
ShutdownTimedOut ==
    /\ shutdown_pc = "waiting"
    /\ sleep_ready
    /\ shutdown_pc' = "returned"
    /\ UNCHANGED << store_vars, builder_vars, config_vars, call_vars, worker_vars,
                    validator_vars, checker_vars, indexer_vars, codec_vars,
                    chroma_info, now, attach_log, page_writes, last_op, calls,
                    prev, doomed, verdict, checked_outpoint,
                    cancelation, task_pc, tracker_closed, shutdown_timeout,
                    elapsed, ext_vars >>

\* the node after Node::run: every task is spawned, the tracker is closed
InitShutdown ==
    /\ InitNode({}, 2, 0)
    /\ InitNoWorkers
    /\ InitNoValidator
    /\ InitNoChecker /\ InitNoIndexer /\ InitNoCodec /\ InitNoExt
    /\ cancelation = FALSE
    /\ task_pc = [task \in Tasks |-> "select"]
    /\ tracker_closed = TRUE
    /\ shutdown_timeout \in ShutdownTimeouts
    /\ shutdown_pc = "off"
    /\ elapsed = 0

NextShutdown ==
    \/ \E task \in Tasks : TaskBegin(task)
    \/ \E task \in Tasks : TaskEnd(task)
    \/ \E task \in Tasks : TaskHang(task)
    \/ \E task \in Tasks : TaskReturn(task)
    \/ Shutdown
    \/ ClockTick
    \/ ShutdownDrained
    \/ ShutdownTimedOut

SpecShutdown == InitShutdown /\ [][NextShutdown]_vars

\* select! picks at random among its ready branches, so a branch that is
\* ready again and again is taken; an iteration ends or hangs; time passes
SpecShutdownLive ==
    /\ SpecShutdown
    /\ \A task \in Tasks : SF_vars(TaskReturn(task))
    /\ \A task \in Tasks : WF_vars(TaskEnd(task) \/ TaskHang(task))
    /\ WF_vars(ClockTick)
    /\ WF_vars(ShutdownDrained \/ ShutdownTimedOut)

-----------------------------------------------------------------------------
(* Properties of the attacher and of the freeze handling                   *)

\* the ids of a log that go to the inventory (freeze toggles do not)
RECURSIVE Inventory(_)
Inventory(log) ==
    IF log = << >> THEN << >>
    ELSE IF TxType(Head(log)) = "FreezeToggle" THEN Inventory(Tail(log))
    ELSE << Head(log) >> \o Inventory(Tail(log))

\* page[from] \o page[from + 1] \o ... \o page[pages_number]
RECURSIVE PagesFrom(_)
PagesFrom(from) ==
    IF from > UnwrapOr(pages_number, 0) THEN << >>
    ELSE Get(pages, from, << >>) \o PagesFrom(from + 1)

NoDuplicates(txids) ==
    \A i, j \in 1..Len(txids) : txids[i] = txids[j] => i = j

\* the attached freeze toggles that target an outpoint and are signed by the
\* owner of its chroma
ValidFreezes(outpoint) ==
    {t \in Range(attach_log) :
        /\ TxType(t) = "FreezeToggle"
        /\ outpoint \in Range(Freezes(t))
        /\ find_issuer_in_txinputs(WitnessKeys(t), PixelChroma(outpoint))}

\* C1: every Transfer in the attached storage has the transaction of each of
\* its input proofs' previous_output in the attached storage as well.
C1_ParentsAttached ==
    \A t \in tx_storage :
        TxType(t) = "Transfer" => \A p \in Range(InputParents(t)) : p \in tx_storage

\* C3: is_output_frozen reports an outpoint frozen exactly when the number of
\* attached freeze toggles that target it and are signed by the chroma owner
\* is odd.
C3_FrozenIffOddValidFreezes ==
    (last_op = "is_output_frozen" /\ verdict # "error")
        => (verdict = "frozen" <=> Cardinality(ValidFreezes(checked_outpoint)) % 2 = 1)

\* C6: between attach_txs calls the concatenation of the pages is the sequence
\* of attached inventory ids in attachment order, and holds no id twice.
C6_PagesAreAttachOrder ==
    pc = "idle" => /\ PagesFrom(0) = Inventory(attach_log)
                   /\ NoDuplicates(PagesFrom(0))

\* C7: attach_txs(b) run right after attach_txs(b) leaves the attached storage,
\* the pages and page count, the frozen entries and the in-memory maps as the
\* first call left them.
C7_AttachTxsIdempotent ==
    (/\ pc = "idle"
     /\ last_op = "attach_txs"
     /\ prev # None
     /\ prev[1].consecutive
     /\ prev[1].batch = batch)
        => Snapshot = prev[1].state

\* C8: after handle_cleanup every outdated transaction and every descendant
\* reachable through inverse_deps is absent from stored_txs, deps and
\* inverse_deps, as a key and as a member of any set.
C8_CleanupRemovesDescendants ==
    last_op = "cleanup" =>
        \A t \in doomed :
            /\ ~Has(stored_txs, t)
            /\ ~Has(deps, t)
            /\ ~Has(inverse_deps, t)
            /\ \A c \in DOMAIN deps : t \notin deps[c]
            /\ \A q \in DOMAIN inverse_deps : t \notin inverse_deps[q]

\* every parent of the batch's transfers was attached before the call or is
\* in the batch, and no transaction was pending before the call
ClosedBatch ==
    /\ prev # None
    /\ prev[1].state.deps = EmptyMap
    /\ prev[1].state.inverse_deps = EmptyMap
    /\ prev[1].state.stored_txs = {}
    /\ \A t \in Range(batch) : \A p \in Range(InputParents(t)) :
           p \in prev[1].state.tx_storage \cup Range(batch)

\* C10: a batch whose transfers have every parent attached or in the batch is
\* attached whole, in any order, leaves deps, inverse_deps and stored_txs empty
\* and has its inventory ids in the pages.
C10_ClosedBatchAttaches ==
    (pc = "idle" /\ last_op = "attach_txs" /\ ClosedBatch)
        => /\ Range(batch) \subseteq tx_storage
           /\ deps = EmptyMap
           /\ inverse_deps = EmptyMap
           /\ stored_txs = EmptyMap
           /\ Range(Inventory(batch)) \subseteq Range(PagesFrom(0))

-----------------------------------------------------------------------------
(* The cleanup scenario of tests::test_cleanup                             *)

CleanupBatch == << "tx6", "tx2", "tx5", "tx4", "tx3", "tx7" >>

\* the batch was submitted to a fresh graph builder and cleanup ran afterwards
CleanupScenarioRan ==
    known = DocTxs /\ calls = 1 /\ batch = CleanupBatch /\ last_op = "cleanup"

\* C9 (as stated): in the cleanup scenario, attach_txs of the batch followed
\* by cleanup writes no page.
C9_NoPageWritten == CleanupScenarioRan => page_writes = << >>

\* C9 (amended): in the cleanup scenario attach_txs writes exactly one page,
\* page 0 holding the three issues in batch order, cleanup writes none, and
\* a cleanup that finds the three pending transfers to remove leaves every map
\* empty.
C9_OnlyIssuesPageWritten ==
    CleanupScenarioRan =>
        /\ page_writes = << [num |-> 0, page |-> << "tx6", "tx2", "tx7" >>] >>
        /\ pages = [n \in {0} |-> << "tx6", "tx2", "tx7" >>]
        /\ doomed = {"tx3", "tx4", "tx5"} => /\ deps = EmptyMap
                                             /\ inverse_deps = EmptyMap
                                             /\ stored_txs = EmptyMap

\* C9 witness: cleanup ran after the batch and removed the three pending transfers
C9_Witness ==
    /\ CleanupScenarioRan
    /\ doomed = {"tx3", "tx4", "tx5"}
    /\ stored_txs = EmptyMap

-----------------------------------------------------------------------------
(* Properties of the supply handling                                       *)

\* C2: a chroma with a chroma announcement of max_supply # 0 never has a
\* total_supply above max_supply, under every interleaving of the workers.
C2_SupplyWithinMax ==
    \A c \in Chromas :
        (/\ chroma_info[c] # None
         /\ chroma_info[c][1].announcement # None
         /\ chroma_info[c][1].announcement[1].max_supply # 0)
            => chroma_info[c][1].total_supply <= chroma_info[c][1].announcement[1].max_supply

-----------------------------------------------------------------------------
(* Properties of the isolated validator                                    *)

\* the sum of the lumas of a chroma over a proof map, in the integers
RECURSIVE LumaSum(_, _)
LumaSum(proofs, chroma) ==
    IF proofs = << >> THEN 0
    ELSE (IF ~Head(proofs).empty /\ Head(proofs).chroma = chroma
          THEN Head(proofs).luma ELSE 0) + LumaSum(Tail(proofs), chroma)

\* a Transfer was checked whose proofs are one per non-OP_RETURN output, mapped
\* to existing inputs and outputs and individually valid
ValidTransferChecked ==
    /\ check_result # "none"
    /\ yuv_tx[1].tx_type = "Transfer"
    /\ yuv_tx[1].non_op_return_outputs = Len(yuv_tx[1].output_proofs)
    /\ yuv_tx[1].mapped
    /\ yuv_tx[1].proofs_valid

\* C4: a Transfer whose proofs are individually valid is accepted when, for
\* every chroma, the input lumas and the output lumas have the same sum, and
\* is rejected with ConservationRulesViolated otherwise.
C4_TransferOkIffConserved ==
    ValidTransferChecked =>
        check_result =
            IF \A c \in Chromas : LumaSum(yuv_tx[1].input_proofs, c)
                                      = LumaSum(yuv_tx[1].output_proofs, c)
            THEN "Ok" ELSE "ConservationRulesViolated"

\* the chromas of the output pixels of the Issue in hand
OutputChromas ==
    IF yuv_tx[1].output_proofs = None THEN {}
    ELSE {proof.chroma : proof \in
             {q \in Range(yuv_tx[1].output_proofs[1]) : ~q.empty}}

\* an input's witness key is, x-only, the chroma or PixelKey(empty pixel, chroma)
IssuerInput(chroma) ==
    \E key \in yuv_tx[1].witness_keys :
        key = XOnlyKey(chroma) \/ key = EmptyPixelKey(chroma)

IssueChecked == check_result # "none" /\ yuv_tx[1].tx_type = "Issue"

ReachesIssuerCheck ==
    /\ yuv_tx[1].output_proofs # None
    /\ yuv_tx[1].output_proofs[1] # << >>
    /\ yuv_tx[1].found_announcement # "other"
    /\ yuv_tx[1].non_op_return_outputs = Len(yuv_tx[1].output_proofs[1])
    /\ Cardinality(OutputChromas) <= 1
    /\ yuv_tx[1].mapped
    /\ yuv_tx[1].proofs_valid
    /\ \E c \in Chromas :
          LumaSum(yuv_tx[1].output_proofs[1], c) < Modulus
          /\ LumaSum(yuv_tx[1].output_proofs[1], c) =
                 (IF yuv_tx[1].found_announcement = "same" THEN yuv_tx[1].amount ELSE 0)
          /\ OutputChromas \subseteq {c}

-----------------------------------------------------------------------------
(* Properties of check_txs                                                 *)

\* the messages of one kind the last check_txs sent
EventsOf(kind) == SelectSeq(events, LAMBDA e : e.kind = kind)

\* the transactions the last check_txs reported invalid
ReportedInvalid == UNION {Range(e.tx_ids) : e \in Range(EventsOf("InvalidTxs"))}

\* the transactions the last check_txs forwarded to the GraphBuilder
ForwardedChecked == UNION {Range(e.txs) : e \in Range(EventsOf("CheckedTxs"))}

\* the parents of the last batch's transfers (those not refused) that were
\* neither in storage when the batch arrived nor in the batch
MissingParents ==
    LET received == new_txs[1]
        transfers == {t \in Range(received.txs) :
                         TxType(t) = "Transfer" /\ t \notin ReportedInvalid}
    IN {p \in UNION {Range(InputParents(t)) : t \in transfers} :
           p \notin received.tx_storage /\ p \notin Range(received.txs)}

\* C11: after check_txs on a batch from peer P, there is exactly one GetData,
\* addressed to P and listing the parents of the batch's transfers that are
\* neither in storage nor in the batch, when there is such a parent; there is
\* no GetData when no parent is missing or the batch has no sender; and an
\* AttachedTxs event never lists a transfer with a parent that is not attached
C11_GetDataForMissingParents ==
    /\ (new_txs # None /\ new_txs[1].result = "ok") =>
          LET get_data == EventsOf("GetData")
          IN IF MissingParents # {} /\ new_txs[1].sender # None
             THEN /\ Len(get_data) = 1
                  /\ get_data[1].receiver = new_txs[1].sender[1]
                  /\ Range(get_data[1].inv) = MissingParents
             ELSE get_data = << >>
    /\ last_op = "attach_txs" =>
          \A t \in Range(attached_txs) : Range(InputParents(t)) \subseteq tx_storage

\* check_transaction returns an error for the transaction
FailsIsolated(t) == check_transaction(IsolatedTx(t)) \notin {"Ok", "panic"}

\* C12: after check_txs, every transaction of the batch that fails the
\* isolated validator is in the invalid namespace, is listed in an InvalidTxs
\* message that carries the batch's sender, is not in CheckedTxs and is not
\* attached
C12_IsolatedFailureIsInvalid ==
    new_txs # None =>
       \A t \in Range(new_txs[1].txs) :
          FailsIsolated(t) =>
             /\ t \in invalid
             /\ \E e \in Range(EventsOf("InvalidTxs")) :
                   t \in Range(e.tx_ids) /\ e.sender = new_txs[1].sender
             /\ t \notin ForwardedChecked
             /\ t \notin tx_storage

\* C13: a transaction recorded in the invalid namespace is never afterwards
\* forwarded in CheckedTxs nor put into the attached-transaction storage
C13_InvalidIsTerminal ==
    [][/\ checks' # checks => ForwardedChecked' \cap invalid = {}
       /\ \A t \in invalid : t \in tx_storage' => t \in tx_storage]_vars

-----------------------------------------------------------------------------
(* Properties of the block indexer                                         *)

\* every registered sub-indexer returned success for the block of the entry
AllSucceeded(entry) ==
    /\ Len(entry.results) = NumIndexers
    /\ \A i \in 1 .. NumIndexers : entry.results[i] = "ok"

\* the latest block for which every sub-indexer returned success
LatestSucceeded ==
    LET succeeded == SelectSeq(index_log, AllSucceeded)
    IN  IF succeeded = << >> THEN None
        ELSE Some(succeeded[Len(succeeded)].block)

\* the index_block calls of the last init or tick
LastWalk == SubSeq(index_log, tick_info.from + 1, Len(index_log))

DeliveredActive ==
    SelectSeq(index_log, LAMBDA e : AllSucceeded(e) /\ InActiveChain(e.block))

\* C15: across init and all run ticks the blocks reach the sub-indexers in
\* strictly ascending height order, each block once (deliveries that failed
\* and blocks a reorganisation removed are left out)
C15_AscendingOnce ==
    \A i, j \in 1 .. Len(DeliveredActive) :
        i < j => DeliveredActive[i].block.height < DeliveredActive[j].block.height

\* C16: a tick that finds the best block different from last_indexed and
\* meets no error passes every height from the last indexed block to the
\* tip to the sub-indexers and leaves last_indexed at the best block
C16_TickReachesBest ==
    (/\ tick_info # None
     /\ tick_info.op = "tick"
     /\ tick_info.ok
     /\ tick_info.start # Some(tick_info.best)) =>
        /\ last_indexed = Some(tick_info.best)
        /\ Len(LastWalk) = tick_info.best.height - tick_info.start[1].height + 1
        /\ \A k \in 1 .. Len(LastWalk) :
               LastWalk[k].block.height = tick_info.start[1].height + k - 1

-----------------------------------------------------------------------------
(* Properties of the codecs                                                *)

\* C17: decoding the consensus encoding of a YuvTransaction of any type, of
\* an Inventory or of a freeze entry, and parsing the bytes or the OP_RETURN
\* script made from an announcement or a freeze toggle, returns the
\* original value and leaves no byte unread
C17_RoundTrip ==
    codec_decoded # None =>
        /\ codec_decoded[1].ok
        /\ codec_decoded[1].value = codec_value[1].v
        /\ codec_decoded[1].rest = << >>

\* C17 witness: a Transfer with two input proofs and an output proof at an
\* index of more than one byte went through encoding and decoding
C17_Witness ==
    /\ codec_decoded # None
    /\ codec_value[1].of = "YuvTransaction"
    /\ codec_value[1].v.tx_type.type = "Transfer"
    /\ Cardinality(DOMAIN codec_value[1].v.tx_type.input_proofs) = 2
    /\ 300 \in DOMAIN codec_value[1].v.tx_type.output_proofs
    /\ codec_decoded[1].ok

\* C18: from_bytes returns ShortLength for an input shorter than 5 bytes,
\* InvalidPrefix for an input of at least 5 bytes whose first three bytes
\* are not "yuv", and otherwise hands the bytes after the 5-byte header to
\* the payload parser
C18_FromBytesErrors ==
    (codec_decoded # None /\ codec_value[1].of = "bytes") =>
        LET value == codec_value[1].v
            result == codec_decoded[1]
        IN  IF Len(value) < 5
            THEN ~result.ok /\ result.value = "ShortLength"
            ELSE IF << value[1], value[2], value[3] >> # << 121, 117, 118 >>
            THEN ~result.ok /\ result.value = "InvalidPrefix"
            ELSE /\ result.ok
                 /\ result.value.data = [i \in 1 .. Len(value) - 5 |-> value[i + 5]]

\* C18 witness: an input of six bytes with the prefix "yuv" was parsed and
\* its last byte reached the payload parser
C18_Witness ==
    /\ codec_decoded # None
    /\ codec_value[1].of = "bytes"
    /\ Len(codec_value[1].v) = 6
    /\ codec_decoded[1].ok
    /\ codec_decoded[1].value.data = << codec_value[1].v[6] >>

-----------------------------------------------------------------------------
(* Properties of the bulletproof branch of check_transfer_isolated         *)

\* the non-empty proofs of the transfer
NonEmptyProofs(tx) ==
    SelectSeq(tx.input_proofs \o tx.output_proofs, LAMBDA proof : ~proof.empty)

\* C19: a transfer that mixes Bulletproof proofs and other non-empty proofs
\* is rejected with MixedBulletproofsAndNonBulletproofs, in every order of
\* its input and output proofs
C19_MixedProofsRejected ==
    (/\ check_result # "none"
     /\ \E i \in 1 .. Len(NonEmptyProofs(yuv_tx[1])) :
            proof_is_bulletproof(NonEmptyProofs(yuv_tx[1])[i])
     /\ \E i \in 1 .. Len(NonEmptyProofs(yuv_tx[1])) :
            ~proof_is_bulletproof(NonEmptyProofs(yuv_tx[1])[i])) =>
        check_result = "MixedBulletproofsAndNonBulletproofs"

\* C20: a transfer whose non-empty proofs are all Bulletproof proofs is
\* accepted only when are_commitments_equal finds the commitments equal
C20_AcceptedOnlyIfCommitmentsEqual ==
    (/\ check_result = "Ok"
     /\ NonEmptyProofs(yuv_tx[1]) # << >>
     /\ \A i \in 1 .. Len(NonEmptyProofs(yuv_tx[1])) :
            proof_is_bulletproof(NonEmptyProofs(yuv_tx[1])[i])) =>
        are_commitments_equal(yuv_tx[1].input_proofs,
                              yuv_tx[1].output_proofs) = "true"

-----------------------------------------------------------------------------
(* Properties of the node's shutdown                                       *)

\* C21: after Node::shutdown cancelled the token, every task whose current
\* iteration completes returns, and shutdown returns, never later than the
\* shutdown timeout, also when a task never finishes
C21_ShutdownDrains ==
    /\ \A task \in Tasks :
           cancelation ~> (task_pc[task] \in {"returned", "stuck"})
    /\ [](shutdown_pc # "off" => elapsed <= Timeout)
    /\ (shutdown_pc = "waiting") ~> (shutdown_pc = "returned")

\* shutdown returned by the default timeout while a checker worker never
\* finished and the other tasks had returned
C21_Witness ==
    /\ shutdown_pc = "returned"
    /\ shutdown_timeout = None
    /\ elapsed = DEFAULT_SHUTDOWN_TIMEOUT_SECS
    /\ task_pc[<< "tx_checker", 1 >>] = "stuck"
    /\ \A task \in Tasks \ {<< "tx_checker", 1 >>} : task_pc[task] = "returned"

-----------------------------------------------------------------------------
(* Properties of the checker's store writes                                *)

\* a checker worker's check_txs call
CheckerStep == checks' = checks + 1

\* C22: a check_txs call of a checker worker leaves the attached
\* transactions, the pages and the chroma info as they were; it writes the
\* invalid and the frozen entries only
C22_CheckerWritesInvalidAndFrozenOnly ==
    [][CheckerStep =>
           /\ tx_storage' = tx_storage
           /\ pages' = pages
           /\ pages_number' = pages_number
           /\ chroma_info' = chroma_info]_vars

-----------------------------------------------------------------------------
(* Properties of the indexer's init                                        *)

\* the last init, if init was the last operation of the indexer
LastInit == IF tick_info # None /\ tick_info.op = "init" THEN Some(tick_info) ELSE None

\* the height of an optional block, a missing one counted as 0
HeightOrZero(block) == IF block = None THEN 0 ELSE block[1].height

C24_StepsBack ==
    (/\ LastInit # None
     /\ LastInit[1].start # None
     /\ LastInit[1].params.yuv_genesis_block_hash = None) =>
        LET init == LastInit[1]
            last_height == init.start[1].height
        IN  init.starting_block_height =
                IF last_height > init.params.index_step_back
                THEN last_height - init.params.index_step_back
                ELSE 0

\* the position of the first sent block whose height is not the expected
\* one (0: the sent blocks are contiguous from the starting height)
FirstGap(blocks, starting_block_height) ==
    LET gaps == {k \in 1 .. Len(blocks) :
                    blocks[k].height # starting_block_height + k - 1}
    IN  IF gaps = {} THEN 0 ELSE CHOOSE k \in gaps : \A j \in gaps : k <= j

\* C25: when a block received during init has not the expected height, init
\* fails, that block and the later ones are passed to no sub-indexer and
\* last_indexed is none of them; when the block loader and the indexer both
\* failed, the error reports both
C25_GapFailsInit ==
    LastInit # None =>
        LET init == LastInit[1]
            gap == FirstGap(init.blocks, init.starting_block_height)
        IN  /\ gap # 0 =>
                /\ init.result # "Ok"
                /\ ~init.ok
                /\ Len(LastWalk) < gap
                /\ \A k \in 1 .. Len(LastWalk) : LastWalk[k].block = init.blocks[k]
                /\ \A k \in gap .. Len(init.blocks) :
                       last_indexed # Some(init.blocks[k])
            /\ (init.blockloader_result # "ok" /\ ~init.ok) <=>
                   init.result = "BlockLoader error, Indexer error"

\* an init that indexed a block, then received a block of a later height
\* than expected, while the block loader failed too
C25_Witness ==
    /\ LastInit # None
    /\ FirstGap(LastInit[1].blocks, LastInit[1].starting_block_height) = 2
    /\ Len(LastInit[1].blocks) >= 2
    /\ Len(LastWalk) = 1
    /\ last_indexed = Some(LastInit[1].blocks[1])
    /\ LastInit[1].blockloader_result = "err"
    /\ LastInit[1].result = "BlockLoader error, Indexer error"

-----------------------------------------------------------------------------
(* Properties of the attacher's pending children, pages and dependency maps *)

\* the transactions the last attach_txs call attached
AttachedByCall == tx_storage \ prev[1].state.tx_storage

\* the children that inverse_deps recorded for a transaction when the last
\* attach_txs call began
PendingChildren(t) == Get(prev[1].state.inverse_deps, t, {})

\* C26: when an attach_txs call has attached a transaction of any type,
\* every pending child recorded for it in inverse_deps whose parents are all
\* attached after the call is attached after the call
C26_ChildrenOfAttachedAreAttached ==
    (pc = "idle" /\ last_op = "attach_txs" /\ prev # None) =>
        \A t \in AttachedByCall :
            \A c \in PendingChildren(t) :
                Range(InputParents(c)) \subseteq tx_storage => c \in tx_storage

C28_DepsMirrorInverseDeps ==
    pc = "idle" =>
        /\ \A c \in DOMAIN deps : \A p \in deps[c] : c \in Get(inverse_deps, p, {})
        /\ \A p \in DOMAIN inverse_deps : \A c \in inverse_deps[p] : p \in Get(deps, c, {})

-----------------------------------------------------------------------------
(* Properties of the checks of chroma and freeze announcements             *)

\* the existing total supply of the chroma fits the announced max_supply,
\* 0 meaning no bound
SupplyFits(a) ==
    \/ chroma_info[a.chroma] = None
    \/ a.max_supply = 0
    \/ chroma_info[a.chroma][1].total_supply <= a.max_supply

\* C29: a worker accepts a chroma announcement if and only if an input of
\* its transaction is signed by the chroma's owner and the chroma's existing
\* total supply, if any, does not exceed the announced max_supply, where
\* max_supply 0 means unbounded
C29_ChromaAnnouncementAccepted ==
    [][\A w \in Workers :
           (/\ worker[w].pc = "check"
            /\ worker'[w] # worker[w]
            /\ worker[w].announcement[1].kind = "Chroma") =>
               LET a == worker[w].announcement[1]
               IN  worker'[w].pc = "apply" <=> (a.signer = a.chroma /\ SupplyFits(a))]_vars

\* the last check_txs call forwarded the transaction to the attacher
Forwarded(t) ==
    \E i \in 1 .. Len(events) :
        events[i].kind = "CheckedTxs" /\ t \in Range(events[i].txs)

\* the conditions of a valid freeze announcement, on the store the check
\* began with: the target transaction is stored, the chroma of the target's
\* pixel is freezable and the freeze transaction is signed by its owner
FreezeIsValid(t, storage) ==
    LET outpoint == Head(Freezes(t))
        chroma == PixelChroma(outpoint)
    IN  /\ FreezeTxid(outpoint) \in storage
        /\ ~NotFreezable(chroma)
        /\ find_issuer_in_txinputs(WitnessKeys(t), chroma)

\* C30: a freeze transaction is forwarded by check_txs only if its freeze
\* announcement is valid; otherwise it is recorded invalid and not forwarded
C30_FreezeAcceptedOnlyIfValid ==
    (new_txs # None /\ new_txs[1].result = "ok") =>
        \A t \in Range(new_txs[1].txs) :
            TxType(t) = "FreezeToggle" =>
                /\ Forwarded(t) => FreezeIsValid(t, new_txs[1].tx_storage)
                /\ ~FreezeIsValid(t, new_txs[1].tx_storage) =>
                       t \in invalid /\ ~Forwarded(t)

-----------------------------------------------------------------------------
(* Properties of the freeze check of a transfer input                      *)

\* the entries of an outpoint's freeze list whose freeze transaction is
\* stored and signed by the owner of the chroma
RemainingFreezes(outpoint) ==
    SelectSeq(Get(frozen, outpoint, << >>),
              LAMBDA f : /\ f \in tx_storage
                         /\ find_issuer_in_txinputs(WitnessKeys(f), PixelChroma(outpoint)))

\* a check_txs call on a batch of the one transfer ct, whose input spends
\* an outpoint with a freeze list
TransferCheckStep ==
    /\ CheckerStep
    /\ new_txs'[1].txs = << "ct" >>
    /\ Has(frozen, "o1")
    /\ ~NotFreezable(PixelChroma("o1"))

\* C31: the check of a transfer input leaves on the outpoint's freeze list
\* the entries whose freeze transaction is stored and signed by the chroma
\* owner, and completes; the transfer is recorded invalid and not forwarded
\* if the number of those entries is odd
C31_InvalidFreezesDroppedAndCheckCompletes ==
    [][TransferCheckStep =>
           /\ new_txs'[1].result = "ok"
           /\ frozen'["o1"] = RemainingFreezes("o1")
           /\ (Len(RemainingFreezes("o1")) % 2 = 1) =>
                  /\ "ct" \in invalid'
                  /\ \A i \in 1 .. Len(events') :
                         events'[i].kind = "CheckedTxs" => "ct" \notin Range(events'[i].txs)]_vars

-----------------------------------------------------------------------------
(* Properties of check_issue_isolated, output by output                    *)

\* an Issue given output by output was checked
OutputIssueChecked ==
    /\ check_result # "none"
    /\ yuv_tx[1].tx_type = "Issue"
    /\ "outputs" \in DOMAIN yuv_tx[1]

\* C32: every non-OP_RETURN output of an accepted Issue has a proof at its
\* own vout, and checked_check_by_output accepted that proof for that output
C32_AcceptedIssueProvesEveryOutput ==
    (OutputIssueChecked /\ check_result = "Ok") =>
        \A i \in 1 .. Len(yuv_tx[1].outputs) :
            ~is_op_return(yuv_tx[1].outputs[i]) =>
                /\ (i - 1) \in DOMAIN yuv_tx[1].proof_map
                /\ yuv_tx[1].proof_map[i - 1].valid

\* the sum of the lumas of the output proofs, in the integers
RECURSIVE LumaTotal(_)
LumaTotal(proofs) ==
    IF proofs = << >> THEN 0 ELSE Head(proofs).luma + LumaTotal(Tail(proofs))

\* C33: an Issue with output proofs whose outputs hold another
\* IssueAnnouncement than the tx type's is rejected with
\* IssueAnnouncementMismatch; an accepted Issue whose outputs hold the
\* announcement has lumas that sum to the announced amount; an Issue without
\* an IssueAnnouncement output is never rejected for its amount
C33_AmountCheckedOnlyWithAnnouncement ==
    (IssueChecked /\ yuv_tx[1].output_proofs # None) =>
        /\ yuv_tx[1].found_announcement = "other" =>
               check_result = "IssueAnnouncementMismatch"
        /\ (yuv_tx[1].found_announcement = "same" /\ check_result = "Ok") =>
               LumaTotal(yuv_tx[1].output_proofs[1]) = yuv_tx[1].amount
        /\ yuv_tx[1].found_announcement = "none" =>
               check_result # "AnnouncedAmountDoesNotMatch"

-----------------------------------------------------------------------------
(* Properties of check_txs when the Bitcoin RPC fails                      *)

\* C34: a check_txs call records in the invalid namespace no transaction
\* whose get_raw_transaction call failed
C34_RpcFailureIsNotInvalid ==
    [][CheckerStep =>
           \A t \in Range(new_txs'[1].txs) :
               new_txs'[1].got_txs[t] = "error" => t \notin invalid' \ invalid]_vars

-----------------------------------------------------------------------------
(* Properties of the confirmation indexer                                  *)

\* a find_waiting_txs call that returned Ok
IndexedBlockStep == confirm_log'[1].op = "index" /\ confirm_log'[1].ok

\* the NewTxs messages among msgs that carry the transaction
ForwardsOf(msgs, t) == {i \in 1 .. Len(msgs) : t \in Range(msgs[i].txs)}

\* the transactions of the events waiting in the channel
Submitted == UNION {Range(new_tx_rx[i]) : i \in 1 .. Len(new_tx_rx)}

\* C35: a find_waiting_txs call removes from the queue every waiting
\* transaction of its block and sends it to the checker in a NewTxs message
\* of that one transaction without sender, whatever its age: once in all if
\* it was submitted once.  A transaction that has a confirmation when its
\* event is handled is sent at once and not queued
C35_ConfirmedIsForwardedOnce ==
    [][IndexedBlockStep =>
           /\ \A t \in DOMAIN queue \cap confirm_log'[1].block :
                  /\ ~Has(queue', t)
                  /\ ForwardsOf(confirm_log'[1].sent, t) # {}
                  /\ confirm_log[1].submitted[t] = 1 =>
                         Cardinality(ForwardsOf(confirmed_txs', t)) = 1
           /\ \A t \in Submitted :
                  confirmations(t) # None =>
                      /\ ForwardsOf(confirm_log'[1].sent, t) # {}
                      /\ t \notin DOMAIN queue' \ DOMAIN queue
           /\ \A i \in 1 .. Len(confirmed_txs') :
                  Len(confirmed_txs'[i].txs) = 1 /\ confirmed_txs'[i].sender = None]_vars

\* a transaction that had waited longer than max_confirmation_time was in
\* the indexed block, left the queue and went to the checker
C35_Witness ==
    /\ confirm_log[1].op = "index"
    /\ confirm_log[1].ok
    /\ Has(confirm_log[1].waiting, "ci")
    /\ system_time - confirm_log[1].waiting["ci"] > max_confirmation_time
    /\ "ci" \in confirm_log[1].block
    /\ ~Has(queue, "ci")
    /\ confirmed_txs = << [txs |-> << "ci" >>, sender |-> None] >>

\* C39: every transaction of a received ConfirmBatchTx event is waiting in
\* the queue, was sent to the checker or was removed from the queue as
\* outdated
C39_ReceivedIsQueuedForwardedOrExpired ==
    \A t \in confirm_log[1].received :
        \/ Has(queue, t)
        \/ ForwardsOf(confirmed_txs, t) # {}
        \/ t \in confirm_log[1].expired

-----------------------------------------------------------------------------
(* Properties of the frozen entries under concurrent tasks                 *)

\* C36: every freeze txid the graph builder's update_freezes has put is on
\* the freeze list of its outpoint, under every interleaving with the
\* workers' is_output_frozen
C36_NoAppendedFreezeLost ==
    \A t \in appended : t \in Range(Get(frozen, Head(Freezes(t)), << >>))

-----------------------------------------------------------------------------
(* Properties of the node's start                                          *)

\* C37: the initial indexing that Node::run awaits completes and the
\* controller is spawned, however many blocks hold freeze toggles
C37_InitialIndexingCompletes ==
    <>(startup_pc = "spawned")

-----------------------------------------------------------------------------
(* Properties of attach_txs over a failing storage                         *)

\* the ids on the pages of the inventory
PagedTxs == UNION {Range(pages[num]) : num \in DOMAIN pages}

\* C38: between the calls of attach_txs, failed calls included, every stored
\* transaction that set_tx_attached adds to attached_txs is on a page and
\* was sent in an AttachedTxs message
C38_AttachedIsPagedAndReported ==
    pc = "idle" =>
        \A t \in tx_storage :
            TxType(t) # "FreezeToggle" => t \in PagedTxs /\ t \in reported

-----------------------------------------------------------------------------
(* Properties of the queue loop of attach_txs                              *)

\* a step of the queue loop that attaches a transaction
QueueAttachStep == pc = "queue" /\ attach_log' # attach_log

\* C40: the queue loop of attach_txs ends (the call returns or a debug build
\* panics on its debug_assert), and a transaction the loop attaches was
\* pending, is attached for the first time in the call and is pending no
\* longer, so it is attached at most once per call
C40_QueueLoopTerminates ==
    /\ (pc = "queue") ~> (pc # "queue")
    /\ [][QueueAttachStep =>
              LET txid == attach_log'[Len(attach_log')]
              IN  /\ Has(stored_txs, txid)
                  /\ ~Has(stored_txs', txid)
                  /\ txid \notin Range(attached_txs)
                  /\ DOMAIN stored_txs' \subseteq DOMAIN stored_txs]_vars

\* a call has returned whose queue loop attached the pending tr2 in its
\* first round and looked at tr2's child tr1 in its second
C40_Witness ==
    /\ pc = "idle"
    /\ last_op = "attach_txs"
    /\ "tr2" \in Range(attached_txs) \ Range(batch)
    /\ Range(batch) \cap {"is1", "fz1"} = {}
    /\ Has(stored_txs, "tr1")
    /\ Has(deps, "tr1")
    /\ "tr2" \notin deps["tr1"]

=============================================================================
